---------------------------- MODULE Spec2Model ----------------------------
(***************************************************************************)
(* Model of the model conversion and validation scripts of HazardHawk:     *)
(*   scripts/convert_gemma_to_onnx.py      (SpecGemma)                     *)
(*   scripts/setup_yolo_hazard_detection.py (SpecYolo, SpecLoader)         *)
(* Files are modelled by the kind of content they hold, paths by their     *)
(* characters, and every call into an external library by the set of       *)
(* outcomes it can have (return, or raise at one of its steps).            *)
(***************************************************************************)
EXTENDS Integers, Sequences, FiniteSets, TLC

VARIABLES
    \* ---- scripts/convert_gemma_to_onnx.py ----
    args,        \* the parsed command line of convert_gemma_to_onnx main
    gpc,         \* position of main
    converter,   \* the GemmaToONNXConverter: whether it was made, its fields
    fs,          \* content of the files at the paths the run can touch
    dirs,        \* the directories that exist
    stage,       \* what each stage of this run did
    exit_code,   \* -1 while running, else the process exit code
    env,         \* facts of the world outside the process
    optimize_returned, \* what _optimize_onnx_model returned, "not_called" before
    trace,       \* the methods and library functions called so far, in order
    names,       \* the names declared at the export, bound at the validation
    ort_dir,     \* the .ort files in the ort_models directory
    ort_returned, \* what convert_to_ort_format returned, "none" before
    raised,      \* what the last convert_to_onnx raised, "none" if nothing
    \* ---- scripts/setup_yolo_hazard_detection.py: the weights ----
    models_dir,     \* size -> the file at models_dir/yolov8<size>.pt
    default_cache,  \* size -> the file at ~/.cache/ultralytics/yolov8<size>.pt
    download_calls, \* size -> how often line 76, YOLO(model_name), was reached
    returned,       \* size -> the path a call returned, NoPath before
    last_call,      \* the last call of download_pretrained_model
    calls,          \* the calls made so far
    \* ---- scripts/setup_yolo_hazard_detection.py: main ----
    yargs,          \* the parsed command line of main
    ypc,            \* position of main
    exported,       \* the dict export_to_mobile_formats returned
    validated,      \* format -> what validate_model returned for it
    deploy,         \* file name -> content, in the --deploy-to directory
    deploy_start,   \* deploy as the run found it
    deploy_queue,   \* the files create_deployment_assets has still to write
    writing,        \* the head of deploy_queue is open for writing
    ystage,         \* what export and deployment did in this run
    yexit_code,     \* -1 while running, else the process exit code
    documents,      \* what this run wrote: the dataset config, the two JSON files
    \* ---- two concurrent calls of download_pretrained_model ----
    csize,          \* the model size both callers ask for
    cpc,            \* caller -> the line of download_pretrained_model it is at
    cresult,        \* caller -> how its call ended, "none" while it runs
    \* ---- download_real_ppe_models.py ----
    installed,        \* the required packages that can be imported
    ppc,              \* position of main
    pdirs,            \* which of models_dir and temp_dir exist
    temp_files,       \* variant -> the .tflite of its YOLO model in temp_dir
    final_files,      \* variant -> the file models_dir/<name>.tflite
    variant,          \* the index in models_config the loop is at
    variant_log,      \* variant -> what the loop body did for it
    converted_models, \* the list of line 72
    model_config,     \* the content of models_dir/model_config.json
    pstart,           \* the directories and files as the run found them
    plog,             \* what main did: report, call of download_yolov8_models
    pexit_code,       \* -1 while running, else the process exit code
    \* ---- convert_to_tflite.py ----
    assets,         \* what update_model_metadata wrote to the two JSON files
    \* ---- convert_onnx_to_tflite.py ----
    tworld,         \* the modules that can be imported, the ONNX model file
    tpc,            \* position of the script
    tflite_file,    \* content of the file at tflite_output_path
    pip_installed,  \* the packages install_requirements installed
    treturned,      \* what convert_onnx_to_tflite returned, "none" before
    texit_code,     \* -1 while running, else the process exit code
    \* ---- the sample inputs of two runs of the tools ----
    samples,        \* run -> the inputs it built, <<>> for one not built yet
    \* ---- download_best_gemma_onnx.py ----
    bpc,            \* position of download_best_gemma_onnx
    remaining,      \* the candidates the loop has still to visit
    tried,          \* the candidates visited, each with what came of it
    downloaded_models, \* the list the function builds and returns
    decoder,        \* content of assets/decoder_model_merged_q4.onnx
    temp_download   \* the directories under models/temp_download, or "none"

gvars == <<args, gpc, converter, fs, dirs, stage, exit_code, env,
           optimize_returned, trace, names, ort_dir, ort_returned, raised>>
lvars == <<models_dir, default_cache, download_calls, returned, last_call, calls>>
yvars == <<yargs, ypc, exported, validated, deploy, deploy_start, deploy_queue,
           writing, ystage, yexit_code, documents>>

cvars == <<csize, cpc, cresult>>

pvars == <<installed, ppc, pdirs, temp_files, final_files, variant,
           variant_log, converted_models, model_config, pstart, plog,
           pexit_code>>

tvars == <<assets, tworld, tpc, tflite_file, pip_installed, treturned,
           texit_code>>

svars == <<samples>>
bvars == <<bpc, remaining, tried, downloaded_models, decoder, temp_download>>
vars == <<gvars, lvars, yvars, cvars, pvars, tvars, svars, bvars>>

\* What the steps of one program leave alone: the state of the others.
notG == <<lvars, yvars, cvars, pvars, tvars, svars, bvars>>
notY == <<gvars, cvars, pvars, tvars, svars, bvars>>
notL == <<gvars, yvars, cvars, pvars, tvars, svars, bvars>>
notC == <<gvars, yvars, pvars, tvars, svars, bvars>>
notP == <<gvars, lvars, yvars, cvars, tvars, svars, bvars>>
notT == <<gvars, lvars, yvars, cvars, pvars, svars, bvars>>
notS == <<gvars, lvars, yvars, cvars, pvars, tvars, bvars>>
notB == <<gvars, lvars, yvars, cvars, pvars, tvars, svars>>

(***************************************************************************)
(* Strings.  A path is the sequence of its characters.                     *)
(***************************************************************************)
StartsWith(s, p) == Len(s) >= Len(p) /\ SubSeq(s, 1, Len(p)) = p

\* Python's str.replace(old, new): every non-overlapping occurrence, scanned
\* from the left.
RECURSIVE StrReplace(_, _, _)
StrReplace(s, old, new) ==
    IF s = <<>> THEN <<>>
    ELSE IF StartsWith(s, old)
         THEN new \o StrReplace(SubSeq(s, Len(old) + 1, Len(s)), old, new)
         ELSE <<Head(s)>> \o StrReplace(Tail(s), old, new)

DotOnnx == <<".", "o", "n", "n", "x">>
OptimizedDotOnnx ==
    <<"_", "o", "p", "t", "i", "m", "i", "z", "e", "d">> \o DotOnnx

\* model_path.replace('.onnx', '_optimized.onnx')
OptimizedPath(model_path) == StrReplace(model_path, DotOnnx, OptimizedDotOnnx)

\* The directory a path lies in (<<>> is the working directory).
ParentDir(p) ==
    LET slashes == {i \in 1..Len(p) : p[i] = "/"}
    IN  IF slashes = {} THEN <<>>
        ELSE SubSeq(p, 1, (CHOOSE i \in slashes : \A j \in slashes : j <= i) - 1)

\* --output defaults to "gemma2b_construction_safety.onnx" ("g.onnx" here).
DefaultOutput == <<"g">> \o DotOnnx

\* The --output values of the model: the default, a path without ".onnx", a
\* path holding ".onnx" twice, and one whose directory holds ".onnx" too.
OutputPaths ==
    { DefaultOutput,
      <<"m", ".", "b", "i", "n">>,
      <<"m">> \o DotOnnx \o DotOnnx,
      <<"d">> \o DotOnnx \o <<"/", "m">> \o DotOnnx }

\* An option that was not given (None, and the empty string, are falsy).
NoPath == <<>>

AllPaths == OutputPaths \cup {OptimizedPath(p) : p \in OutputPaths}
AllDirs == {ParentDir(p) : p \in AllPaths}

(***************************************************************************)
(* File contents.                                                          *)
(*   absent     no file                                                    *)
(*   stale      a file that was there before this run                      *)
(*   export     the complete graph torch.onnx.export wrote                 *)
(*   optimized  the complete graph onnx.save wrote after shape inference   *)
(*   partial    a file whose writer stopped before the last byte           *)
(***************************************************************************)
Contents == {"absent", "stale", "export", "optimized", "partial"}

\* onnx.load, onnx.checker.check_model and ort.InferenceSession accept it.
WellFormed(content) ==
    \/ content \in {"export", "optimized"}
    \/ content = "stale" /\ env.stale_well_formed

Stages == {"load", "export", "optimize", "validate", "ort"}
NotRun == [s \in Stages |-> "not_run"]

FullMode == args.validate_only = NoPath

(***************************************************************************)
(* main, lines 340-342 and 351-353: the converter is constructed, in       *)
(* validate-only mode outside the try block.  __init__ creates cache_dir   *)
(* with mkdir(exist_ok=True); an exception ends the process with code 1    *)
(* on either path (caught at 384-386, or uncaught).                        *)
(***************************************************************************)
Construct ==
    /\ gpc = "start"
    /\ IF env.cache_dir_ok
       THEN /\ converter' = [constructed |-> TRUE,
                            tokenizer |-> "None", model |-> "None"]
            /\ gpc' = IF FullMode THEN "load" ELSE "validate"
            /\ UNCHANGED exit_code
       ELSE /\ gpc' = "exit"
            /\ exit_code' = 1
            /\ UNCHANGED converter
    /\ UNCHANGED <<raised, args, optimize_returned, trace, names, ort_dir,
                   ort_returned, fs, dirs, stage, env, notG>>

(***************************************************************************)
(* load_model, lines 56-94, called at 356.  The tokenizer is assigned      *)
(* before the model: a failure in between leaves it set.                   *)
(***************************************************************************)
LoadModel ==
    /\ gpc = "load"
    /\ \E failAt \in {"none", "tokenizer", "config", "model"} :
          /\ converter' =
                [converter EXCEPT
                   !.tokenizer = IF failAt = "tokenizer" THEN @ ELSE "loaded",
                   !.model     = IF failAt = "none" THEN "loaded" ELSE @]
          /\ IF failAt = "none"
             THEN /\ stage' = [stage EXCEPT !.load = "ok"]
                  /\ gpc' = "export"
                  /\ UNCHANGED exit_code
             ELSE /\ stage' = [stage EXCEPT !.load = "failed"]
                  /\ gpc' = "exit"
                  /\ exit_code' = 1
    /\ trace' = Append(trace, "load_model")
    /\ UNCHANGED <<raised, args, optimize_returned, names, ort_dir, ort_returned,
                   fs, dirs, env, notG>>

(***************************************************************************)
(* convert_to_onnx up to the end of the export, lines 146-180, called at   *)
(* 359.  torch.onnx.export opens output_path and writes the graph: it      *)
(* raises before writing anything ("export"), after writing a part of the  *)
(* file ("export_partial"), or returns.  Every exception is re-raised at   *)
(* 186-188 and ends main at 384-386.                                       *)
(***************************************************************************)
ExportOutcomes ==
    IF ParentDir(args.output) \in dirs
    THEN {"none", "sample", "export", "export_partial"}
    ELSE {"sample", "export"}

ExportFs(f, output_path, failAt) ==
    CASE failAt = "none"           -> [f EXCEPT ![output_path] = "export"]
      [] failAt = "export_partial" -> [f EXCEPT ![output_path] = "partial"]
      [] OTHER                     -> f

\* Lines 153-178: what convert_to_onnx calls up to the step that raises:
\* prepare_sample_inputs, then torch.onnx.export.
ExportCalls(failAt) ==
    IF failAt = "sample" THEN <<"prepare_sample_inputs">>
    ELSE <<"prepare_sample_inputs", "torch.onnx.export">>

\* Lines 155-165: the names given to torch.onnx.export.
input_names == <<"input_ids", "attention_mask">>
output_names == <<"logits">>
dynamic_axes ==
    [input_ids |-> <<"batch_size", "sequence_length">>,
     attention_mask |-> <<"batch_size", "sequence_length">>,
     logits |-> <<"batch_size", "sequence_length">>]

\* Lines 243-246: the keys of ort_inputs, the names the session is run with.
ort_inputsMutant == {"input_ids"}
ort_inputs == {"input_ids", "attention_mask"}

NoNames ==
    [input_names |-> <<>>, output_names |-> <<>>, dynamic_axes |-> <<>>]

\* Line 362: optimize_for_mobile=not args.skip_optimization
optimize_for_mobileMutant == TRUE
optimize_for_mobile == ~args.skip_optimization

\* Line 148: self.model is None
ModelIsNoneMutant == FALSE
ModelIsNone == converter.model = "None"

Export ==
    /\ gpc = "export"
    /\ IF ModelIsNone
       THEN \* lines 148-149: ValueError, outside the try
            /\ raised' = "ValueError"
            /\ stage' = [stage EXCEPT !.export = "failed"]
            /\ gpc' = "exit"
            /\ exit_code' = 1
            /\ trace' = Append(trace, "convert_to_onnx")
            /\ UNCHANGED <<fs, names>>
       ELSE \E failAt \in ExportOutcomes :
            /\ fs' = ExportFs(fs, args.output, failAt)
            /\ trace' = Append(trace, "convert_to_onnx") \o ExportCalls(failAt)
            /\ raised' = IF failAt = "none" THEN "none" ELSE "Exception"
            /\ IF failAt = "none"
               THEN /\ stage' = [stage EXCEPT !.export = "ok"]
                    /\ names' = [names EXCEPT
                                   !.declared = [input_names |-> input_names,
                                                 output_names |-> output_names,
                                                 dynamic_axes |-> dynamic_axes]]
                    /\ gpc' = IF optimize_for_mobile
                              THEN "optimize" ELSE "validate"
                    /\ UNCHANGED exit_code
               ELSE /\ stage' = [stage EXCEPT !.export = "failed"]
                    /\ gpc' = "exit"
                    /\ exit_code' = 1
                    /\ UNCHANGED names
    /\ UNCHANGED <<args, optimize_returned, ort_dir, ort_returned, converter,
                   dirs, env, notG>>

(***************************************************************************)
(* _optimize_onnx_model, lines 190-217, called at 184.  It raises at       *)
(* onnx.load, at infer_shapes, at onnx.save before a byte is written       *)
(* ("save") or after a part of the file is ("save_partial"), or at         *)
(* os.replace; onnx.save cannot create a file in a directory that does     *)
(* not exist, and os.replace of a file onto itself does nothing.           *)
(***************************************************************************)
OptimizeOutcomes(model_path) ==
    LET optimized_path == OptimizedPath(model_path)
    IN  {"load", "infer", "save"}
        \cup (IF ParentDir(optimized_path) \in dirs
              THEN {"save_partial", "none"} ELSE {})
        \cup (IF ParentDir(optimized_path) \in dirs
                 /\ optimized_path # model_path
              THEN {"replace"} ELSE {})

OptimizeFs(f, model_path, failAt) ==
    LET optimized_path == OptimizedPath(model_path)
    IN  CASE failAt \in {"load", "infer", "save"} -> f
          [] failAt = "save_partial" ->
                [f EXCEPT ![optimized_path] = "partial"]
          [] failAt = "replace" ->
                [f EXCEPT ![optimized_path] = "optimized"]
          [] failAt = "none" ->
                IF optimized_path = model_path
                THEN [f EXCEPT ![model_path] = "optimized"]
                ELSE [f EXCEPT ![model_path] = "optimized",
                               ![optimized_path] = "absent"]

\* Lines 215-217: "except Exception" logs a warning and does not re-raise.
OptimizerPropagatesMutant(failAt) == failAt = "replace"
OptimizerPropagates(failAt) == FALSE

\* Lines 190, 213, 215-217: the function is declared -> None and has no
\* return statement, neither after the optimization nor in the except
\* branch; failAt is the step that raised, "none" when none did.
OptimizeReturns(failAt) == "None"

Optimize ==
    /\ gpc = "optimize"
    /\ \E failAt \in OptimizeOutcomes(args.output) :
          /\ fs' = OptimizeFs(fs, args.output, failAt)
          /\ stage' = [stage EXCEPT
                         !.optimize = IF failAt = "none" THEN "ok" ELSE "failed"]
          /\ optimize_returned' = OptimizeReturns(failAt)
          /\ IF failAt # "none" /\ OptimizerPropagates(failAt)
             THEN /\ gpc' = "exit"
                  /\ exit_code' = 1
             ELSE /\ gpc' = "validate"
                  /\ UNCHANGED exit_code
    /\ trace' = Append(trace, "_optimize_onnx_model")
    /\ UNCHANGED <<raised, args, names, ort_dir, ort_returned, converter, dirs, env,
                   notG>>

(***************************************************************************)
(* validate_onnx_model, lines 219-255.  True when onnx.load, check_model   *)
(* and InferenceSession accept the file (233-237), prepare_sample_inputs   *)
(* can call self.tokenizer (240, 122) and the session runs (248); every    *)
(* exception gives False.  The outputs are logged, not compared.           *)
(***************************************************************************)
ValidateOnnxModel(onnx_path) ==
    /\ WellFormed(fs[onnx_path])
    /\ converter.tokenizer # "None"
    /\ env.engine_runs

\* main, lines 366-370: a failed validation ends the process with code 1.
ValidationFailureExitsMutant(valid) == FALSE
ValidationFailureExits(valid) == ~valid

Validate ==
    /\ gpc = "validate"
    /\ LET onnx_path == IF FullMode THEN args.output ELSE args.validate_only
           valid == ValidateOnnxModel(onnx_path)
           \* line 240 is reached when 233-237 accepted the file, and
           \* 243-246 when prepare_sample_inputs returned
           sampled == WellFormed(fs[onnx_path])
           bound == sampled /\ converter.tokenizer # "None"
       IN  /\ stage' = [stage EXCEPT
                          !.validate = IF valid THEN "ok" ELSE "failed"]
           /\ trace' = Append(trace, "validate_onnx_model")
                         \o (IF sampled THEN <<"prepare_sample_inputs">>
                             ELSE <<>>)
           /\ names' = IF bound THEN [names EXCEPT !.bound = ort_inputs]
                       ELSE names
           /\ IF FullMode
              THEN IF ValidationFailureExits(valid)
                   THEN /\ gpc' = "exit"
                        /\ exit_code' = 1
                   ELSE /\ gpc' = IF args.create_ort THEN "ort" ELSE "finish"
                        /\ UNCHANGED exit_code
              ELSE \* lines 343-348
                   /\ gpc' = "exit"
                   /\ exit_code' = IF valid THEN 0 ELSE 1
    /\ UNCHANGED <<raised, args, optimize_returned, ort_dir, ort_returned, converter,
                   fs, dirs, env, notG>>

(***************************************************************************)
(* convert_to_ort_format, lines 257-293, called at 373-375: it returns     *)
(* the path of an .ort file or re-raises what went wrong.                  *)
(***************************************************************************)
\* The .ort files a directory can hold: one left by the conversion of
\* another model, and the one this model converts to.
OrtFiles == {"stale", "fresh"}

\* Lines 275-280: convert_onnx_models_to_ort raises, returns having written
\* the .ort file of this model, or returns having written none.
OrtOutcomes == {"raise", "written", "nothing"}

\* Lines 283-290: glob('*.ort') lists the directory in no defined order and
\* the first entry is returned; an empty list raises FileNotFoundError.
OrtFound(files) == IF files = {} THEN {"raised"} ELSE files

ConvertToOrt ==
    /\ gpc = "ort"
    /\ trace' = Append(trace, "convert_to_ort_format")
    /\ \E outcome \in OrtOutcomes :
          LET files == IF outcome = "written" THEN ort_dir \cup {"fresh"}
                       ELSE ort_dir
          IN  /\ ort_dir' = files
              /\ IF outcome = "raise"
                 THEN /\ ort_returned' = "raised"
                      /\ stage' = [stage EXCEPT !.ort = "failed"]
                      /\ gpc' = "exit"
                      /\ exit_code' = 1
                 ELSE \E found \in OrtFound(files) :
                      /\ ort_returned' = found
                      /\ IF found = "raised"
                         THEN /\ stage' = [stage EXCEPT !.ort = "failed"]
                              /\ gpc' = "exit"
                              /\ exit_code' = 1
                         ELSE /\ stage' = [stage EXCEPT !.ort = "ok"]
                              /\ gpc' = "finish"
                              /\ UNCHANGED exit_code
    /\ UNCHANGED <<raised, args, optimize_returned, names, converter, fs, dirs, env,
                   notG>>

(***************************************************************************)
(* main, lines 377-386: the size of the output file is read and logged,    *)
(* and main returns: the process ends with code 0.                         *)
(***************************************************************************)
Finish ==
    /\ gpc = "finish"
    /\ gpc' = "exit"
    /\ exit_code' = IF fs[args.output] = "absent" THEN 1 ELSE 0
    /\ UNCHANGED <<raised, args, optimize_returned, trace, names, ort_dir,
                   ort_returned, converter, fs, dirs, stage, env, notG>>

(***************************************************************************)
(* GemmaToONNXConverter as a class: a caller that holds a constructed      *)
(* converter calls load_model and convert_to_onnx in the order it likes.   *)
(* args holds the arguments it passes (output_path, and optimize_for_mobile*)
(* as the negation of skip_optimization).                                  *)
(***************************************************************************)
MaxApiCalls == 3

ApiCalls ==
    Len(SelectSeq(trace,
                  LAMBDA name : name \in {"load_model", "convert_to_onnx"}))

\* load_model, lines 56-94: an attribute assigned before the step that
\* raised keeps its new value, the others keep the one they had.
ApiLoadModel ==
    /\ gpc = "api"
    /\ ApiCalls < MaxApiCalls
    /\ \E failAt \in {"none", "tokenizer", "config", "model"} :
          /\ converter' =
                [converter EXCEPT
                   !.tokenizer = IF failAt = "tokenizer" THEN @ ELSE "loaded",
                   !.model     = IF failAt = "none" THEN "loaded" ELSE @]
          /\ stage' = [stage EXCEPT
                         !.load = IF failAt = "none" THEN "ok" ELSE "failed"]
    /\ trace' = Append(trace, "load_model")
    /\ UNCHANGED <<raised, args, gpc, exit_code, optimize_returned, names,
                   ort_dir, ort_returned, fs, dirs, env, notG>>

\* convert_to_onnx, lines 132-188, the whole method: the check of
\* self.model, the sample inputs, the export and, if asked for, the
\* optimizer.
ApiConvertToOnnx ==
    /\ gpc = "api"
    /\ ApiCalls < MaxApiCalls
    /\ IF ModelIsNone
       THEN /\ raised' = "ValueError"
            /\ trace' = Append(trace, "convert_to_onnx")
            /\ stage' = [stage EXCEPT !.export = "failed"]
            /\ UNCHANGED <<fs, names, optimize_returned>>
       ELSE \E failAt \in ExportOutcomes :
            LET exported_fs == ExportFs(fs, args.output, failAt)
                called == Append(trace, "convert_to_onnx")
                              \o ExportCalls(failAt)
            IN  IF failAt # "none"
                THEN /\ raised' = "Exception"
                     /\ fs' = exported_fs
                     /\ trace' = called
                     /\ stage' = [stage EXCEPT !.export = "failed"]
                     /\ UNCHANGED <<names, optimize_returned>>
                ELSE /\ names' = [names EXCEPT
                                    !.declared =
                                       [input_names |-> input_names,
                                        output_names |-> output_names,
                                        dynamic_axes |-> dynamic_axes]]
                     /\ IF optimize_for_mobile
                        THEN \E optAt \in OptimizeOutcomes(args.output) :
                             /\ fs' = OptimizeFs(exported_fs, args.output,
                                                 optAt)
                             /\ trace' = Append(called,
                                                "_optimize_onnx_model")
                             /\ optimize_returned' = OptimizeReturns(optAt)
                             /\ raised' =
                                   IF optAt # "none"
                                      /\ OptimizerPropagates(optAt)
                                   THEN "Exception" ELSE "none"
                             /\ stage' =
                                   [stage EXCEPT
                                      !.export = "ok",
                                      !.optimize = IF optAt = "none"
                                                   THEN "ok" ELSE "failed"]
                        ELSE /\ fs' = exported_fs
                             /\ trace' = called
                             /\ raised' = "none"
                             /\ stage' = [stage EXCEPT !.export = "ok"]
                             /\ UNCHANGED optimize_returned
    /\ UNCHANGED <<args, gpc, exit_code, converter, ort_dir, ort_returned,
                   dirs, env, notG>>

(***************************************************************************)
(* setup_yolo_hazard_detection.py: the pretrained weights.                 *)
(* A weights file is <<"yolov8", size, k>>: k = 0 for a file that was      *)
(* there before, k > 0 for the file the k-th YOLO(model_name) of that size *)
(* fetched.  NoFile is no file.                                            *)
(***************************************************************************)
Sizes == {"n", "s"}     \* of the choices 'n', 's', 'm', 'l', 'x' (line 390)
NoFile == <<>>
WeightsFile(size, k) == <<"yolov8", size, k>>

\* Lines 65-66: str(self.models_dir / f"yolov8{model_size}.pt")
ModelPath(model_size) == <<"models_dir", "/", "yolov8", model_size, ".pt">>

MaxCalls == 3

\* Line 76, YOLO(model_name): it raises, or it returns with the weights at
\* ~/.cache/ultralytics ("default": found there, or fetched to there), or
\* it returns having put them somewhere else ("elsewhere").
YoloOutcomes == {"raise", "default", "elsewhere"}

AfterYolo(cache_file, model_size, k, outcome) ==
    IF outcome = "default" /\ cache_file = NoFile
    THEN WeightsFile(model_size, k)
    ELSE cache_file

\* Line 68: the weights are not fetched when models_dir holds them.
AlreadyCached(model_size) == models_dir[model_size] # NoFile

(***************************************************************************)
(* download_pretrained_model, lines 55-89.  shutil.move (line 82) may      *)
(* raise; every exception is re-raised at 87-89.                           *)
(***************************************************************************)
DownloadPretrainedModel(model_size) ==
    IF AlreadyCached(model_size)
    THEN /\ last_call' = [size |-> model_size, result |-> "cached"]
         /\ returned' = [returned EXCEPT ![model_size] = ModelPath(model_size)]
         /\ UNCHANGED <<models_dir, default_cache, download_calls>>
    ELSE /\ download_calls' = [download_calls EXCEPT ![model_size] = @ + 1]
         /\ \E outcome \in YoloOutcomes, move_ok \in BOOLEAN :
               LET found == AfterYolo(default_cache[model_size], model_size,
                                      download_calls[model_size] + 1, outcome)
               IN  IF outcome = "raise"
                   THEN /\ last_call' = [size |-> model_size, result |-> "raised"]
                        /\ UNCHANGED <<models_dir, default_cache, returned>>
                   ELSE IF found # NoFile /\ ~move_ok
                   THEN /\ last_call' = [size |-> model_size, result |-> "raised"]
                        /\ default_cache' = [default_cache EXCEPT ![model_size] = found]
                        /\ UNCHANGED <<models_dir, returned>>
                   ELSE /\ last_call' = [size |-> model_size, result |-> "downloaded"]
                        /\ returned' = [returned EXCEPT
                                          ![model_size] = ModelPath(model_size)]
                        /\ default_cache' = [default_cache EXCEPT ![model_size] = NoFile]
                        /\ models_dir' = [models_dir EXCEPT
                                            ![model_size] = IF found # NoFile THEN found
                                                            ELSE @]

\* A process calls download_pretrained_model(size) on a HazardDetectionSetup
\* of the same models_dir.
LoaderCall(model_size) ==
    /\ calls < MaxCalls
    /\ calls' = calls + 1
    /\ DownloadPretrainedModel(model_size)
    /\ UNCHANGED notL

(***************************************************************************)
(* Two callers of download_pretrained_model, lines 55-89, for the same     *)
(* size, on the same models_dir and the same ~/.cache/ultralytics.  The    *)
(* function takes no lock and creates no lock file, so the callers         *)
(* interleave at its file system calls: exists (68), YOLO (76), exists     *)
(* (80), move (82).  shutil.move is taken as one rename.                   *)
(***************************************************************************)
Callers == {"a", "b"}

\* Line 68: if model_path.exists(): return str(model_path)
CExists(p) ==
    /\ cpc[p] = "exists"
    /\ IF AlreadyCached(csize)
       THEN /\ cpc' = [cpc EXCEPT ![p] = "done"]
            /\ cresult' = [cresult EXCEPT ![p] = "cached"]
       ELSE /\ cpc' = [cpc EXCEPT ![p] = "yolo"]
            /\ UNCHANGED cresult
    /\ UNCHANGED <<csize, lvars, notC>>

\* Line 76: model = YOLO(model_name); an exception is re-raised at 87-89.
CYolo(p) ==
    /\ cpc[p] = "yolo"
    /\ download_calls' = [download_calls EXCEPT ![csize] = @ + 1]
    /\ \E outcome \in YoloOutcomes :
          IF outcome = "raise"
          THEN /\ cpc' = [cpc EXCEPT ![p] = "done"]
               /\ cresult' = [cresult EXCEPT ![p] = "yolo_raised"]
               /\ UNCHANGED default_cache
          ELSE /\ cpc' = [cpc EXCEPT ![p] = "default_exists"]
               /\ default_cache' =
                     [default_cache EXCEPT
                        ![csize] = AfterYolo(@, csize, download_calls[csize] + 1,
                                             outcome)]
               /\ UNCHANGED cresult
    /\ UNCHANGED <<csize, models_dir, returned, last_call, calls, notC>>

\* Line 80: if default_path.exists():
CDefaultExists(p) ==
    /\ cpc[p] = "default_exists"
    /\ cpc' = [cpc EXCEPT ![p] = IF default_cache[csize] # NoFile
                                 THEN "move" ELSE "return"]
    /\ UNCHANGED <<csize, cresult, lvars, notC>>

\* Line 82: shutil.move(str(default_path), str(model_path)).  It raises
\* FileNotFoundError when the source is no longer there, and may raise for
\* a reason of the file system; the exception is re-raised at 87-89.
CMove(p) ==
    /\ cpc[p] = "move"
    /\ IF default_cache[csize] = NoFile
       THEN /\ cpc' = [cpc EXCEPT ![p] = "done"]
            /\ cresult' = [cresult EXCEPT ![p] = "source_gone"]
            /\ UNCHANGED <<models_dir, default_cache>>
       ELSE \E move_ok \in BOOLEAN :
               IF move_ok
               THEN /\ models_dir' = [models_dir EXCEPT
                                        ![csize] = default_cache[csize]]
                    /\ default_cache' = [default_cache EXCEPT ![csize] = NoFile]
                    /\ cpc' = [cpc EXCEPT ![p] = "return"]
                    /\ UNCHANGED cresult
               ELSE /\ cpc' = [cpc EXCEPT ![p] = "done"]
                    /\ cresult' = [cresult EXCEPT ![p] = "move_raised"]
                    /\ UNCHANGED <<models_dir, default_cache>>
    /\ UNCHANGED <<csize, download_calls, returned, last_call, calls, notC>>

\* Line 85: return str(model_path)
CReturn(p) ==
    /\ cpc[p] = "return"
    /\ cpc' = [cpc EXCEPT ![p] = "done"]
    /\ cresult' = [cresult EXCEPT ![p] = "downloaded"]
    /\ UNCHANGED <<csize, lvars, notC>>

(***************************************************************************)
(* setup_yolo_hazard_detection.py: main, lines 388-476.                    *)
(***************************************************************************)
Formats == {"onnx", "tflite", "coreml"}
FormatOrder == <<"onnx", "tflite", "coreml">>   \* the order of lines 265-288

\* A class dict with a hole in its numbering: 11 is skipped.
safety_classesMutant ==
    << <<"person", 0>>, <<"hard_hat", 1>>, <<"safety_vest", 2>>,
       <<"no_hard_hat", 3>>, <<"no_safety_vest", 4>>, <<"machinery", 5>>,
       <<"excavator", 6>>, <<"crane", 7>>, <<"truck", 8>>,
       <<"fall_hazard", 9>>, <<"electrical_hazard", 10>>,
       <<"safety_cone", 12>>, <<"barrier", 13>> >>

\* Lines 39-53: self.safety_classes, a dict; its items in insertion order.
safety_classes ==
    << <<"person", 0>>, <<"hard_hat", 1>>, <<"safety_vest", 2>>,
       <<"no_hard_hat", 3>>, <<"no_safety_vest", 4>>, <<"machinery", 5>>,
       <<"excavator", 6>>, <<"crane", 7>>, <<"truck", 8>>,
       <<"fall_hazard", 9>>, <<"electrical_hazard", 10>>,
       <<"safety_cone", 11>>, <<"barrier", 12>> >>

\* Lines 248, 268, 276, 284: the image size of every export.
imgsz == 640

NoDocument == <<>>

\* Lines 98-116, the dataset config: "nc: {len(self.safety_classes)}" and under
\* "names:" one line "{class_id}: {class_name}" for each item of the dict.
DatasetYaml ==
    [nc |-> Len(safety_classes),
     names |-> [i \in 1..Len(safety_classes) |->
                  <<safety_classes[i][2], safety_classes[i][1]>>]]

\* Lines 366-368: json.dump(self.safety_classes, f, indent=2)
ClassesJson == safety_classes

\* Lines 373-381: model_info, less its description; dict keys keep the order of insertion, which
\* for exported_models is the order of lines 265-288.
ModelInfo(exported_models) ==
    [model_name |-> "YOLOv8 Construction Hazard Detection",
     version |-> "1.0.0",
     input_size |-> <<640, 640>>,
     classes |-> safety_classes,
     formats |-> SelectSeq(FormatOrder, LAMBDA f : f \in DOMAIN exported_models)]

\* Every model deployed under one and the same name.
DestNameMutant(format_name) == <<"hazard_detection_model", ".", "tflite">>

\* Lines 354-358: the name a format's model is deployed under.
DestName(format_name) ==
    IF format_name = "tflite" THEN <<"hazard_detection_model", ".", "tflite">>
    ELSE IF format_name = "coreml"
         THEN <<"hazard_detection_model", ".", "mlmodel">>
         ELSE <<"hazard_detection_model", ".", format_name>>

ClassesFile == <<"hazard_classes", ".", "json">>      \* line 367
InfoFile == <<"model_info", ".", "json">>             \* line 383
DeployFiles == {DestName(f) : f \in Formats} \cup {ClassesFile, InfoFile}

\* In the deployment directory a file is absent, "old" (complete, written
\* before this run), "partial" (opened for writing, not yet complete) or
\* "new" (complete, written by this run).
DeployContents == {"absent", "old", "partial", "new"}

YExit(code) == ypc' = "exit" /\ yexit_code' = code

\* Lines 407-414: the setup object is made (mkdir of models_dir) and, with
\* --export-only, the model to export must exist.
YStart ==
    /\ ypc = "start"
    /\ \E mkdir_ok \in BOOLEAN :
          IF ~mkdir_ok THEN YExit(1)
          ELSE IF yargs.export_only
               THEN IF yargs.export_only_exists
                    THEN ypc' = "export" /\ UNCHANGED yexit_code
                    ELSE YExit(1)
               ELSE ypc' = "download" /\ UNCHANGED yexit_code
    /\ UNCHANGED <<yargs, documents, exported, validated, deploy, deploy_start,
                   deploy_queue, writing, ystage, lvars, notY>>

\* Line 426: base_model = setup.download_pretrained_model(args.model_size)
YDownload ==
    /\ ypc = "download"
    /\ DownloadPretrainedModel(yargs.model_size)
    /\ calls' = calls + 1
    /\ IF last_call'.result = "raised"
       THEN YExit(1)
       ELSE ypc' = "dataset_config" /\ UNCHANGED yexit_code
    /\ UNCHANGED <<yargs, documents, exported, validated, deploy, deploy_start,
                   deploy_queue, writing, ystage, notY>>

\* Line 429: create_construction_dataset_config, lines 91-118, writes the
\* YAML file or raises.
YDatasetConfig ==
    /\ ypc = "dataset_config"
    /\ \E ok \in BOOLEAN :
          IF ok THEN /\ ypc' = "sample_dataset"
                     /\ documents' = [documents EXCEPT !.dataset_config = DatasetYaml]
                     /\ UNCHANGED yexit_code
          ELSE YExit(1) /\ UNCHANGED documents
    /\ UNCHANGED <<yargs, exported, validated, deploy, deploy_start,
                   deploy_queue, writing, ystage, lvars, notY>>

\* Line 432: download_sample_dataset, lines 120-178, makes the dataset
\* directories or raises.
YSampleDataset ==
    /\ ypc = "sample_dataset"
    /\ \E ok \in BOOLEAN :
          IF ok
          THEN /\ ypc' = IF yargs.train THEN "train" ELSE "export"
               /\ UNCHANGED yexit_code
          ELSE YExit(1)
    /\ UNCHANGED <<yargs, documents, exported, validated, deploy, deploy_start,
                   deploy_queue, writing, ystage, lvars, notY>>

\* Lines 434-448: without training images the process exits with 1;
\* fine_tune_model, lines 180-238, returns best.pt or raises.
YTrain ==
    /\ ypc = "train"
    /\ \E images \in BOOLEAN, trained \in BOOLEAN :
          IF images /\ trained
          THEN ypc' = "export" /\ UNCHANGED yexit_code
          ELSE YExit(1)
    /\ UNCHANGED <<yargs, documents, exported, validated, deploy, deploy_start,
                   deploy_queue, writing, ystage, lvars, notY>>

(***************************************************************************)
(* export_to_mobile_formats, lines 240-297, called at 416, 451 and 455.    *)
(* YOLO(model_path) and the ONNX export stand in the outer try alone: what *)
(* they raise is re-raised at 295-297.  The TFLite and CoreML exports have *)
(* a try of their own (270-279, 283-291): their failure leaves the format  *)
(* out of the dict.  An export returns the path of a file, which is there  *)
(* ("exists") or not ("missing").                                          *)
(***************************************************************************)
ExportRaisesMutant(onnx_ok) == FALSE
ExportRaises(onnx_ok) == ~onnx_ok

ExportedModels(onnx_ok, tflite_ok, coreml_ok, files) ==
    LET keys == (IF onnx_ok THEN {"onnx"} ELSE {})
                \cup (IF tflite_ok THEN {"tflite"} ELSE {})
                \cup (IF coreml_ok THEN {"coreml"} ELSE {})
    IN  [f \in keys |-> files[f]]

YExport ==
    /\ ypc = "export"
    /\ \E onnx_ok \in BOOLEAN, tflite_ok \in BOOLEAN, coreml_ok \in BOOLEAN,
          files \in [Formats -> {"exists", "missing"}] :
          IF ExportRaises(onnx_ok)
          THEN /\ ystage' = [ystage EXCEPT !.export = "raised"]
               /\ YExit(1)
               /\ UNCHANGED exported
          ELSE /\ ystage' = [ystage EXCEPT
                               !.export = IF onnx_ok THEN "ok" ELSE "raised"]
               /\ exported' = ExportedModels(onnx_ok, tflite_ok, coreml_ok, files)
               /\ IF yargs.export_only
                  THEN \* lines 418-419, and then the end of main
                       IF yargs.deploy_to
                       THEN ypc' = "deploy" /\ UNCHANGED yexit_code
                       ELSE YExit(0)
                  ELSE ypc' = "validate" /\ UNCHANGED yexit_code
    /\ UNCHANGED <<yargs, documents, validated, deploy, deploy_start, deploy_queue,
                   writing, lvars, notY>>

(***************************************************************************)
(* Lines 457-460: validate_model, lines 299-336, on every exported file    *)
(* that exists.  It returns True when YOLO(model_path) loads the file and  *)
(* runs it on the image, False on any exception; main drops the result.    *)
(***************************************************************************)
ToValidate == {f \in DOMAIN exported : exported[f] = "exists"}

\* Lines 462-464: what main does after the validation loop.
AfterValidation(results) == IF yargs.deploy_to THEN "deploy" ELSE "exit"

YValidate ==
    /\ ypc = "validate"
    /\ \E results \in [ToValidate -> BOOLEAN] :
          /\ validated' = [f \in Formats |->
                             IF f \in ToValidate
                             THEN IF results[f] THEN "pass" ELSE "fail"
                             ELSE validated[f]]
          /\ ypc' = AfterValidation(results)
          /\ yexit_code' = IF AfterValidation(results) = "exit" THEN 0 ELSE yexit_code
    /\ UNCHANGED <<yargs, documents, exported, deploy, deploy_start, deploy_queue,
                   writing, ystage, lvars, notY>>

(***************************************************************************)
(* create_deployment_assets, lines 338-386, called at 419 and 464.  It     *)
(* makes the directory and then writes, one after the other, a copy of     *)
(* every exported model whose file exists (shutil.copy2, 352-364),         *)
(* hazard_classes.json (367-370) and model_info.json (383-385), each       *)
(* straight to its final name.                                             *)
(***************************************************************************)
RECURSIVE ModelCopies(_)
ModelCopies(formats) ==
    IF formats = <<>> THEN <<>>
    ELSE (IF Head(formats) \in DOMAIN exported /\ exported[Head(formats)] = "exists"
          THEN <<DestName(Head(formats))>> ELSE <<>>)
         \o ModelCopies(Tail(formats))

FilesToWrite == ModelCopies(FormatOrder) \o <<ClassesFile, InfoFile>>

\* Lines 346-349
YDeployStart ==
    /\ ypc = "deploy"
    /\ ystage' = [ystage EXCEPT !.deploy = "invoked"]
    /\ \E mkdir_ok \in BOOLEAN :
          IF mkdir_ok
          THEN /\ ypc' = "deploying"
               /\ deploy_queue' = FilesToWrite
               /\ UNCHANGED yexit_code
          ELSE /\ YExit(1)
               /\ UNCHANGED deploy_queue
    /\ UNCHANGED <<yargs, documents, exported, validated, deploy, deploy_start,
                   writing, lvars, notY>>

\* shutil.copy2 and open(path, 'w') create or truncate the destination.
OpenForWrite(content) == "partial"

YWriteBegin ==
    /\ ypc = "deploying"
    /\ deploy_queue # <<>>
    /\ ~writing
    /\ \E open_ok \in BOOLEAN :
          IF open_ok
          THEN /\ deploy' = [deploy EXCEPT
                               ![Head(deploy_queue)] = OpenForWrite(@)]
               /\ writing' = TRUE
               /\ UNCHANGED <<ypc, yexit_code>>
          ELSE /\ YExit(1)
               /\ UNCHANGED <<deploy, writing>>
    /\ UNCHANGED <<yargs, documents, exported, validated, deploy_start, deploy_queue,
                   ystage, lvars, notY>>

\* The write of the file completes, or raises part-way.
YWriteEnd ==
    /\ ypc = "deploying"
    /\ writing
    /\ \E write_ok \in BOOLEAN :
          IF write_ok
          THEN /\ deploy' = [deploy EXCEPT ![Head(deploy_queue)] = "new"]
               /\ documents' =
                     IF Head(deploy_queue) = ClassesFile
                     THEN [documents EXCEPT !.hazard_classes = ClassesJson]
                     ELSE IF Head(deploy_queue) = InfoFile
                     THEN [documents EXCEPT !.model_info = ModelInfo(exported)]
                     ELSE documents
               /\ deploy_queue' = Tail(deploy_queue)
               /\ writing' = FALSE
               /\ UNCHANGED <<ypc, yexit_code>>
          ELSE /\ YExit(1)
               /\ UNCHANGED <<deploy, deploy_queue, writing, documents>>
    /\ UNCHANGED <<yargs, exported, validated, deploy_start, ystage,
                   lvars, notY>>

\* create_deployment_assets returns, and main ends (lines 466-472).
YDeployReturn ==
    /\ ypc = "deploying"
    /\ deploy_queue = <<>>
    /\ ystage' = [ystage EXCEPT !.deploy = "returned"]
    /\ YExit(0)
    /\ UNCHANGED <<yargs, documents, exported, validated, deploy, deploy_start,
                   deploy_queue, writing, lvars, notY>>

\* The process is killed from outside, wherever it is.
Kill ==
    /\ ypc \notin {"exit", "killed"}
    /\ ypc' = "killed"
    /\ UNCHANGED <<yargs, documents, exported, validated, deploy, deploy_start,
                   deploy_queue, writing, ystage, yexit_code, lvars, notY>>

(***************************************************************************)
(* download_real_ppe_models.py.  A model name is the sequence of its       *)
(* words; a file size is st_size in bytes, and size_mb is kept in tenths   *)
(* of a megabyte, the precision round(size_mb, 1) leaves.                  *)
(***************************************************************************)
required_packages == {"ultralytics", "torch", "torchvision"}    \* line 16

\* Lines 17-23: the packages whose __import__ raises ImportError.
missing == required_packages \ installed

\* A check that lets main go on whatever is missing.
check_dependenciesMutant == TRUE

\* Lines 25-32: False, after the report, when a package is missing.
check_dependencies == missing = {}

\* Lines 51-70
models_config ==
    << [name |-> <<"construction", "_", "safety", "_", "lite">>,
        yolo_model |-> <<"yolov8n", ".pt">>, target_size |-> 320,
        description |-> "Lightweight YOLOv8n for low-end devices"],
       [name |-> <<"construction", "_", "safety", "_", "gpu">>,
        yolo_model |-> <<"yolov8s", ".pt">>, target_size |-> 480,
        description |-> "GPU-optimized YOLOv8s for mid-range devices"],
       [name |-> <<"construction", "_", "safety", "_", "full">>,
        yolo_model |-> <<"yolov8m", ".pt">>, target_size |-> 640,
        description |-> "Full YOLOv8m for high-end devices"] >>

Variants == DOMAIN models_config

\* 'lite' in model_name (lines 165, 169, 182, 184)
Contains(model_name, word) == \E i \in DOMAIN model_name : model_name[i] = word

\* The sizes in bytes final_path.stat() may report (line 102): 3.2 MB, 11.2 MB.
StatSizes == {3355443, 11744051}

\* Lines 102, 107: round(st_size / (1024 * 1024), 1), in tenths of a MB.
SizeMb(st_size) == (st_size * 10 + (1024 * 1024) \div 2) \div (1024 * 1024)

\* Lines 104-110: the entry of converted_models.
ConvertedModel(v, st_size) ==
    [name |-> models_config[v].name,
     path |-> <<"models_dir", "/">> \o models_config[v].name \o <<".tflite">>,
     size_mb |-> SizeMb(st_size),
     input_size |-> models_config[v].target_size,
     description |-> models_config[v].description]

\* Lines 156-194: the record update_model_config writes for a model.  With
\* size_mb in tenths, int(size_mb * 15) is (size_mb * 15) \div 10.
ModelRecord(model_info) ==
    LET model_name == model_info.name
        size_mb == model_info.size_mb
        lite == Contains(model_name, "lite")
        gpu == Contains(model_name, "gpu")
        cpu_time == IF lite THEN (size_mb * 15) \div 10
                    ELSE IF gpu THEN (size_mb * 20) \div 10
                    ELSE (size_mb * 25) \div 10
        gpu_time == IF lite THEN (cpu_time * 3) \div 10
                    ELSE IF gpu THEN (cpu_time * 25) \div 100
                    ELSE (cpu_time * 2) \div 10
    IN  [filename |-> model_name \o <<".tflite">>,
         version |-> "1.0.0",
         size_mb |-> size_mb,
         description |-> model_info.description,
         input_size |-> model_info.input_size,
         supported_backends |->
            IF lite THEN <<"CPU", "GPU_OPENGL", "GPU_OPENCL">>
            ELSE <<"GPU_OPENCL", "GPU_OPENGL", "NPU_NNAPI">>,
         min_memory_gb |-> IF lite THEN "2.0" ELSE IF gpu THEN "3.0" ELSE "4.0",
         accuracy_score |-> IF lite THEN "0.82" ELSE IF gpu THEN "0.86"
                            ELSE "0.89",
         classes |-> <<"person", "hardhat", "no-hardhat", "safety-vest",
                       "no-safety-vest", "machinery", "vehicle", "safety-cone">>,
         num_classes |-> 8,
         inference_time_ms |-> [CPU |-> cpu_time, GPU |-> gpu_time]]

\* model_config.json is absent, is not JSON ("corrupt"), is JSON without a
\* "models" object ("other_json"), or is JSON with one ("json"); models is
\* then its "models" object, model name -> record.
NoModels == <<>>
ConfigKinds == {"absent", "corrupt", "other_json", "json"}

\* Lines 149-153: the config update_model_config starts from; a file that
\* cannot be read as JSON gives the default of line 153.
LoadedModels(config) == IF config.kind = "json" THEN config.models ELSE NoModels

\* Lines 156-194: config["models"][model_name] = {...}, one model after the
\* other, over the entries that were there.
RECURSIVE UpdatedModels(_, _)
UpdatedModels(models, converted) ==
    IF converted = <<>> THEN models
    ELSE LET model_info == Head(converted)
             updated == [n \in DOMAIN models \cup {model_info.name} |->
                           IF n = model_info.name THEN ModelRecord(model_info)
                           ELSE models[n]]
         IN  UpdatedModels(updated, Tail(converted))

PExit(code) == ppc' = "exit" /\ pexit_code' = code

\* main, lines 231-237: without the required packages main reports and
\* exits with 1.
PMain ==
    /\ ppc = "start"
    /\ IF check_dependencies
       THEN /\ ppc' = "download"
            /\ UNCHANGED <<plog, pexit_code>>
       ELSE /\ plog' = [plog EXCEPT !.reported = missing]
            /\ PExit(1)
    /\ UNCHANGED <<installed, pdirs, temp_files, final_files, variant,
                   variant_log, converted_models, model_config, pstart, notP>>

\* download_yolov8_models, lines 34-72.  The two mkdir (42-43) are outside
\* the try: their exception reaches main (lines 255-257).  An ImportError of
\* line 49 is answered with False (136-139), and main exits with 1.
PDownloadBegin ==
    /\ ppc = "download"
    /\ \E mkdir \in {"ok", "models_dir_raises", "temp_dir_raises"} :
          /\ pdirs' = pdirs \cup (IF mkdir = "ok" THEN {"models_dir", "temp_dir"}
                                  ELSE IF mkdir = "temp_dir_raises"
                                  THEN {"models_dir"} ELSE {})
          /\ IF mkdir # "ok"
             THEN /\ plog' = [plog EXCEPT !.invoked = TRUE, !.returned = "raised"]
                  /\ PExit(1)
                  /\ UNCHANGED <<variant, converted_models>>
             ELSE IF "ultralytics" \notin installed
             THEN /\ plog' = [plog EXCEPT !.invoked = TRUE, !.returned = "False"]
                  /\ PExit(1)
                  /\ UNCHANGED <<variant, converted_models>>
             ELSE /\ plog' = [plog EXCEPT !.invoked = TRUE]
                  /\ ppc' = "variants"
                  /\ variant' = 1
                  /\ converted_models' = <<>>
                  /\ UNCHANGED pexit_code
    /\ UNCHANGED <<installed, temp_files, final_files, variant_log,
                   model_config, pstart, notP>>

\* model.export (85-91) raises, or writes its .tflite into temp_dir, or
\* writes it somewhere else.
PExportOutcomes == {"raises", "to_temp", "elsewhere"}

\* The loop body, lines 74-121, for the variant the loop is at.  YOLO(...)
\* (78) is before the inner try: when it raises, the except of 140-142
\* returns False and main exits with 1 (249-250).  What the inner try
\* raises (export, rename, stat) is printed at 120-121 and the loop goes on.
\* The glob of 95-98 finds a file of temp_dir that carries the name of this
\* variant's YOLO model, whoever wrote it.
PVariant ==
    /\ ppc = "variants"
    /\ variant \in Variants
    /\ \E load_ok \in BOOLEAN, export \in PExportOutcomes,
          rename_ok \in BOOLEAN, st_size \in StatSizes :
          LET in_temp == IF export = "to_temp" THEN "fresh"
                         ELSE temp_files[variant]
          IN  IF ~load_ok
              THEN /\ variant_log' = [variant_log EXCEPT ![variant] = "load_raised"]
                   /\ plog' = [plog EXCEPT !.returned = "False"]
                   /\ PExit(1)
                   /\ UNCHANGED <<temp_files, final_files, variant,
                                  converted_models>>
              ELSE /\ variant' = variant + 1
                   /\ UNCHANGED <<ppc, pexit_code, plog>>
                   /\ IF export = "raises"
                      THEN /\ variant_log' = [variant_log EXCEPT
                                                ![variant] = "export_raised"]
                           /\ UNCHANGED <<temp_files, final_files,
                                          converted_models>>
                      ELSE IF in_temp = "absent"
                      THEN /\ variant_log' = [variant_log EXCEPT
                                                ![variant] = "not_found"]
                           /\ UNCHANGED <<temp_files, final_files,
                                          converted_models>>
                      ELSE IF ~rename_ok
                      THEN /\ variant_log' = [variant_log EXCEPT
                                                ![variant] = "rename_raised"]
                           /\ temp_files' = [temp_files EXCEPT ![variant] = in_temp]
                           /\ UNCHANGED <<final_files, converted_models>>
                      ELSE /\ variant_log' = [variant_log EXCEPT
                                                ![variant] = "converted"]
                           /\ temp_files' = [temp_files EXCEPT ![variant] = "absent"]
                           /\ final_files' = [final_files EXCEPT ![variant] = in_temp]
                           /\ converted_models' =
                                 Append(converted_models,
                                        ConvertedModel(variant, st_size))
    /\ UNCHANGED <<installed, pdirs, model_config, pstart, notP>>

\* update_model_config, lines 144-229, on a model_config.json of content
\* config.  config["models"][...] raises on a JSON file without a "models"
\* object, open(config_path, 'w') (226) may raise, and json.dump (227) may
\* raise after the file was truncated.
ConfigWrites == {"ok", "open_raises", "dump_raises"}

ConfigRaises(config, write) == config.kind = "other_json" \/ write # "ok"

WrittenConfig(config, converted, write) ==
    IF config.kind = "other_json" \/ write = "open_raises" THEN config
    ELSE IF write = "dump_raises" THEN [kind |-> "corrupt", models |-> NoModels]
    ELSE [kind |-> "json",
          models |-> UpdatedModels(LoadedModels(config), converted)]

\* Lines 123-125: update_model_config is called when a model was
\* converted; its exception is answered with False (140-142), and main
\* exits with 1.
PUpdateConfig ==
    /\ ppc = "variants"
    /\ variant = Len(models_config) + 1
    /\ IF converted_models = <<>>
       THEN /\ ppc' = "cleanup"
            /\ UNCHANGED <<model_config, plog, pexit_code>>
       ELSE \E write \in ConfigWrites :
               /\ model_config' = WrittenConfig(model_config, converted_models,
                                                write)
               /\ IF ConfigRaises(model_config, write)
                  THEN /\ plog' = [plog EXCEPT !.returned = "False"]
                       /\ PExit(1)
                  ELSE /\ ppc' = "cleanup"
                       /\ UNCHANGED <<plog, pexit_code>>
    /\ UNCHANGED <<installed, pdirs, temp_files, final_files, variant,
                   variant_log, converted_models, pstart, notP>>

\* Lines 127-134: shutil.rmtree(temp_dir, ignore_errors=True) removes the
\* directory or leaves it, and the function returns True; main, 242-247,
\* then ends, with exit code 0.
PCleanup ==
    /\ ppc = "cleanup"
    /\ \E removed \in BOOLEAN :
          IF removed
          THEN /\ pdirs' = pdirs \ {"temp_dir"}
               /\ temp_files' = [v \in Variants |-> "absent"]
          ELSE UNCHANGED <<pdirs, temp_files>>
    /\ plog' = [plog EXCEPT !.returned = "True"]
    /\ PExit(0)
    /\ UNCHANGED <<installed, final_files, variant, variant_log,
                   converted_models, model_config, pstart, notP>>

(***************************************************************************)
(* convert_to_tflite.py: update_model_metadata, lines 61-90.               *)
(***************************************************************************)
\* model_info with the class count of the 80 COCO classes.
TfliteModelInfoMutant ==
    [name |-> "HazardHawk Construction Safety Detector",
     version |-> "1.0.0-dummy",
     format |-> "tflite",
     input_size |-> <<640, 640>>,
     num_classes |-> 80]

\* Lines 65-71: the dict dumped to hazard_classes.json.
TfliteClasses ==
    [classes |-> <<"person", "hard_hat", "safety_vest", "no_hard_hat",
                   "no_safety_vest", "machinery", "excavator", "crane",
                   "truck", "fall_hazard", "electrical_hazard",
                   "safety_cone", "barrier">>]

\* Lines 79-86: the dict dumped to model_info.json, less its description.
TfliteModelInfo ==
    [name |-> "HazardHawk Construction Safety Detector",
     version |-> "1.0.0-dummy",
     format |-> "tflite",
     input_size |-> <<640, 640>>,
     num_classes |-> 13]

\* update_model_metadata writes hazard_classes.json (73-76) and then
\* model_info.json (88-90); either write may raise, which ends the call.
MetadataWrites == {"ok", "classes_raises", "info_raises"}

UpdateModelMetadata ==
    /\ \E write \in MetadataWrites :
          assets' = [hazard_classes |-> IF write = "classes_raises"
                                        THEN assets.hazard_classes
                                        ELSE TfliteClasses,
                     model_info |-> IF write = "ok" THEN TfliteModelInfo
                                    ELSE assets.model_info]
    /\ UNCHANGED <<tworld, tpc, tflite_file, pip_installed, treturned,
                   texit_code, notT>>

(***************************************************************************)
(* The writers of metadata, each called on its own: the dataset config of  *)
(* setup_yolo_hazard_detection.py, update_model_config of                  *)
(* download_real_ppe_models.py on every list of converted models its loop  *)
(* can build, and update_model_metadata of convert_to_tflite.py.           *)
(***************************************************************************)
\* Lines 72-110: a list the loop can have built when update_model_config is
\* called: some of the variants, in the order of models_config.
ConvertedLists ==
    {l \in UNION {[1..n -> Variants \X StatSizes] : n \in 1..Len(models_config)} :
        \A i, j \in DOMAIN l : i < j => l[i][1] < l[j][1]}

ConvertedList(l) == [i \in DOMAIN l |-> ConvertedModel(l[i][1], l[i][2])]

\* create_construction_dataset_config, lines 91-118; the write may raise.
CreateConstructionDatasetConfig ==
    /\ \E ok \in BOOLEAN :
          documents' = IF ok THEN [documents EXCEPT !.dataset_config = DatasetYaml]
                       ELSE documents
    /\ UNCHANGED <<yargs, ypc, exported, validated, deploy, deploy_start,
                   deploy_queue, writing, ystage, yexit_code, lvars, notY>>

\* update_model_config, lines 144-229.
UpdateModelConfig ==
    /\ \E l \in ConvertedLists, write \in ConfigWrites :
          model_config' = WrittenConfig(model_config, ConvertedList(l), write)
    /\ UNCHANGED <<installed, ppc, pdirs, temp_files, final_files, variant,
                   variant_log, converted_models, pstart, plog, pexit_code,
                   notP>>

(***************************************************************************)
(* convert_onnx_to_tflite.py                                               *)
(***************************************************************************)
\* Lines 30-32: import onnx, import tensorflow, from onnx_tf.backend import
Imports == {"onnx", "tensorflow", "onnx_tf"}

\* Lines 13-18
packages == {"onnx", "onnx-tf", "tensorflow", "ultralytics"}

TReturn(value) == tpc' = "main" /\ treturned' = value

\* Lines 29-32: an ImportError goes to the except of line 67.
TImport ==
    /\ tpc = "start"
    /\ tpc' = IF Imports \subseteq tworld.importable THEN "convert"
              ELSE "install"
    /\ UNCHANGED <<assets, tworld, tflite_file, pip_installed, treturned,
                   texit_code, notT>>

\* Lines 67-71: install_requirements, lines 10-25, runs pip for each
\* package, goes on when pip fails, and False is returned.
TInstall ==
    /\ tpc = "install"
    /\ \E ok \in SUBSET packages : pip_installed' = ok
    /\ TReturn("False")
    /\ UNCHANGED <<assets, tworld, tflite_file, texit_code, notT>>

\* Lines 38-53: False when the ONNX model is not there (38-40) and when
\* onnx.load, prepare or the converter raises (72-74).
TConvert ==
    /\ tpc = "convert"
    /\ \E converts \in BOOLEAN :
          IF tworld.onnx_model /\ converts
          THEN tpc' = "write" /\ UNCHANGED treturned
          ELSE TReturn("False")
    /\ UNCHANGED <<assets, tworld, tflite_file, pip_installed, texit_code,
                   notT>>

\* Lines 56-59: mkdir of the parent, then open(tflite_output_path, 'wb'),
\* which creates or truncates the file.
TWriteBegin ==
    /\ tpc = "write"
    /\ \E open_ok \in BOOLEAN :
          IF open_ok
          THEN /\ tflite_file' = "partial"
               /\ tpc' = "writing"
               /\ UNCHANGED treturned
          ELSE /\ TReturn("False")
               /\ UNCHANGED tflite_file
    /\ UNCHANGED <<assets, tworld, pip_installed, texit_code, notT>>

\* Lines 60-65: f.write(tflite_model), and True is returned; when the
\* write raises the file stays as far as it was written (72-74).
TWriteEnd ==
    /\ tpc = "writing"
    /\ \E write_ok \in BOOLEAN :
          IF write_ok
          THEN tflite_file' = "new" /\ TReturn("True")
          ELSE UNCHANGED tflite_file /\ TReturn("False")
    /\ UNCHANGED <<assets, tworld, pip_installed, texit_code, notT>>

\* Lines 79-82: the script prints one of two lines and ends; it never calls
\* sys.exit, so the interpreter ends with exit code 0.
TMainEnd ==
    /\ tpc = "main"
    /\ tpc' = "exit"
    /\ texit_code' = 0
    /\ UNCHANGED <<assets, tworld, tflite_file, pip_installed, treturned,
                   notT>>

(***************************************************************************)
(* The specifications.  Each runs one program; the variables of the other  *)
(* programs keep the value they are given at the start.                    *)
(***************************************************************************)

\* convert_gemma_to_onnx.py: main starts with a command line, a file system
\* (the file at the path it is given may be there already) and a world.
InitGemma ==
    /\ \E vo \in {NoPath} \cup OutputPaths, out \in OutputPaths,
          skip \in BOOLEAN, ort \in BOOLEAN :
          /\ vo # NoPath => (out = DefaultOutput /\ ~skip /\ ~ort)
          /\ args = [output |-> out, skip_optimization |-> skip,
                     create_ort |-> ort, validate_only |-> vo]
    /\ gpc = "start"
    /\ converter = [constructed |-> FALSE, tokenizer |-> "None", model |-> "None"]
    /\ \E ds \in SUBSET AllDirs, pre \in {"absent", "stale"} :
          LET target == IF FullMode THEN args.output ELSE args.validate_only
          IN  /\ <<>> \in ds
              /\ pre = "stale" => ParentDir(target) \in ds
              /\ dirs = ds
              /\ fs = [p \in AllPaths |-> IF p = target THEN pre ELSE "absent"]
    /\ stage = NotRun
    /\ exit_code = -1
    /\ optimize_returned = "not_called"
    /\ trace = <<>>
    /\ names = [declared |-> NoNames, bound |-> {}]
    /\ ort_dir \in SUBSET (OrtFiles \ {"fresh"})
    /\ ort_returned = "none"
    /\ raised = "none"
    /\ env \in [cache_dir_ok : BOOLEAN, engine_runs : BOOLEAN,
                outputs_match : BOOLEAN, stale_well_formed : BOOLEAN]
    /\ models_dir = <<>> /\ default_cache = <<>> /\ download_calls = <<>>
    /\ returned = <<>> /\ last_call = <<>> /\ calls = 0
    /\ yargs = <<>> /\ ypc = "idle" /\ exported = <<>> /\ validated = <<>>
    /\ deploy = <<>> /\ deploy_start = <<>> /\ deploy_queue = <<>>
    /\ writing = FALSE /\ ystage = <<>> /\ yexit_code = -1
    /\ csize = "none" /\ cpc = <<>> /\ cresult = <<>>
    /\ documents = <<>>
    /\ installed = {} /\ ppc = "idle" /\ pdirs = {} /\ temp_files = <<>>
    /\ final_files = <<>> /\ variant = 0 /\ variant_log = <<>>
    /\ converted_models = <<>> /\ model_config = <<>> /\ pstart = <<>>
    /\ plog = <<>> /\ pexit_code = -1
    /\ assets = <<>> /\ tworld = <<>> /\ tpc = "idle" /\ tflite_file = "none"
    /\ pip_installed = {} /\ treturned = "none" /\ texit_code = -1
    /\ samples = <<>>
    /\ bpc = "idle" /\ remaining = <<>> /\ tried = <<>>
    /\ downloaded_models = <<>> /\ decoder = "none" /\ temp_download = "none"

GNext ==
    \/ Construct
    \/ LoadModel
    \/ Export
    \/ Optimize
    \/ Validate
    \/ ConvertToOrt
    \/ Finish

SpecGemma == InitGemma /\ [][GNext]_vars

\* setup_yolo_hazard_detection.py: main starts with a command line, the
\* weights that are already on the disk, and a deployment directory that is
\* empty or holds the bundle of an earlier run.
InitYolo ==
    /\ yargs \in [model_size : {"n"}, train : BOOLEAN, export_only : BOOLEAN,
                  export_only_exists : BOOLEAN, deploy_to : BOOLEAN]
    /\ yargs.export_only_exists => yargs.export_only
    /\ yargs.export_only => ~yargs.train
    /\ ypc = "start"
    /\ exported = <<>>
    /\ validated = [f \in Formats |-> "not_run"]
    /\ \E before \in {"absent", "old"} :
          /\ before = "old" => yargs.deploy_to
          /\ deploy = [f \in DeployFiles |-> before]
          /\ deploy_start = [f \in DeployFiles |-> before]
    /\ deploy_queue = <<>>
    /\ writing = FALSE
    /\ ystage = [export |-> "not_run", deploy |-> "not_run"]
    /\ yexit_code = -1
    /\ documents = [dataset_config |-> NoDocument, hazard_classes |-> NoDocument,
                    model_info |-> NoDocument]
    /\ \E in_models_dir \in BOOLEAN, in_cache \in BOOLEAN :
          /\ models_dir = [s \in Sizes |-> IF s = "n" /\ in_models_dir
                                           THEN WeightsFile(s, 0) ELSE NoFile]
          /\ default_cache = [s \in Sizes |-> IF s = "n" /\ in_cache
                                              THEN WeightsFile(s, 0) ELSE NoFile]
    /\ download_calls = [s \in Sizes |-> 0]
    /\ returned = [s \in Sizes |-> NoPath]
    /\ last_call = [size |-> "none", result |-> "none"]
    /\ calls = 0
    /\ args = <<>> /\ gpc = "idle" /\ converter = <<>> /\ fs = <<>>
    /\ dirs = {} /\ stage = <<>> /\ exit_code = -1 /\ env = <<>>
    /\ csize = "none" /\ cpc = <<>> /\ cresult = <<>>
    /\ installed = {} /\ ppc = "idle" /\ pdirs = {} /\ temp_files = <<>>
    /\ final_files = <<>> /\ variant = 0 /\ variant_log = <<>>
    /\ converted_models = <<>> /\ model_config = <<>> /\ pstart = <<>>
    /\ plog = <<>> /\ pexit_code = -1
    /\ assets = <<>> /\ tworld = <<>> /\ tpc = "idle" /\ tflite_file = "none"
    /\ pip_installed = {} /\ treturned = "none" /\ texit_code = -1
    /\ samples = <<>>
    /\ bpc = "idle" /\ remaining = <<>> /\ tried = <<>>
    /\ downloaded_models = <<>> /\ decoder = "none" /\ temp_download = "none"
    /\ optimize_returned = "not_called"
    /\ trace = <<>> /\ names = <<>> /\ ort_dir = {} /\ ort_returned = "none"
    /\ raised = "none"

YNext ==
    \/ YStart
    \/ YDownload
    \/ YDatasetConfig
    \/ YSampleDataset
    \/ YTrain
    \/ YExport
    \/ YValidate
    \/ YDeployStart
    \/ YWriteBegin
    \/ YWriteEnd
    \/ YDeployReturn
    \/ Kill

SpecYolo == InitYolo /\ [][YNext]_vars

\* download_pretrained_model called again and again on the same models_dir,
\* from any state of models_dir and of the default cache.
InitLoader ==
    /\ \E in_models_dir \in SUBSET Sizes, in_cache \in SUBSET Sizes :
          /\ models_dir = [s \in Sizes |-> IF s \in in_models_dir
                                           THEN WeightsFile(s, 0) ELSE NoFile]
          /\ default_cache = [s \in Sizes |-> IF s \in in_cache
                                              THEN WeightsFile(s, 0) ELSE NoFile]
    /\ download_calls = [s \in Sizes |-> 0]
    /\ returned = [s \in Sizes |-> NoPath]
    /\ last_call = [size |-> "none", result |-> "none"]
    /\ calls = 0
    /\ args = <<>> /\ gpc = "idle" /\ converter = <<>> /\ fs = <<>>
    /\ dirs = {} /\ stage = <<>> /\ exit_code = -1 /\ env = <<>>
    /\ yargs = <<>> /\ ypc = "idle" /\ exported = <<>> /\ validated = <<>>
    /\ deploy = <<>> /\ deploy_start = <<>> /\ deploy_queue = <<>>
    /\ writing = FALSE /\ ystage = <<>> /\ yexit_code = -1
    /\ csize = "none" /\ cpc = <<>> /\ cresult = <<>>
    /\ documents = <<>>
    /\ installed = {} /\ ppc = "idle" /\ pdirs = {} /\ temp_files = <<>>
    /\ final_files = <<>> /\ variant = 0 /\ variant_log = <<>>
    /\ converted_models = <<>> /\ model_config = <<>> /\ pstart = <<>>
    /\ plog = <<>> /\ pexit_code = -1
    /\ assets = <<>> /\ tworld = <<>> /\ tpc = "idle" /\ tflite_file = "none"
    /\ pip_installed = {} /\ treturned = "none" /\ texit_code = -1
    /\ samples = <<>>
    /\ bpc = "idle" /\ remaining = <<>> /\ tried = <<>>
    /\ downloaded_models = <<>> /\ decoder = "none" /\ temp_download = "none"
    /\ optimize_returned = "not_called"
    /\ trace = <<>> /\ names = <<>> /\ ort_dir = {} /\ ort_returned = "none"
    /\ raised = "none"

LNext == \E model_size \in Sizes : LoaderCall(model_size)

SpecLoader == InitLoader /\ [][LNext]_vars

\* Two callers start download_pretrained_model for the same size, from any
\* state of models_dir and of the default cache.
InitConcurrent ==
    /\ csize \in Sizes
    /\ cpc = [p \in Callers |-> "exists"]
    /\ cresult = [p \in Callers |-> "none"]
    /\ \E in_models_dir \in SUBSET Sizes, in_cache \in SUBSET Sizes :
          /\ models_dir = [s \in Sizes |-> IF s \in in_models_dir
                                           THEN WeightsFile(s, 0) ELSE NoFile]
          /\ default_cache = [s \in Sizes |-> IF s \in in_cache
                                              THEN WeightsFile(s, 0) ELSE NoFile]
    /\ download_calls = [s \in Sizes |-> 0]
    /\ returned = [s \in Sizes |-> NoPath]
    /\ last_call = [size |-> "none", result |-> "none"]
    /\ calls = 0
    /\ args = <<>> /\ gpc = "idle" /\ converter = <<>> /\ fs = <<>>
    /\ dirs = {} /\ stage = <<>> /\ exit_code = -1 /\ env = <<>>
    /\ yargs = <<>> /\ ypc = "idle" /\ exported = <<>> /\ validated = <<>>
    /\ deploy = <<>> /\ deploy_start = <<>> /\ deploy_queue = <<>>
    /\ writing = FALSE /\ ystage = <<>> /\ yexit_code = -1
    /\ documents = <<>>
    /\ installed = {} /\ ppc = "idle" /\ pdirs = {} /\ temp_files = <<>>
    /\ final_files = <<>> /\ variant = 0 /\ variant_log = <<>>
    /\ converted_models = <<>> /\ model_config = <<>> /\ pstart = <<>>
    /\ plog = <<>> /\ pexit_code = -1
    /\ assets = <<>> /\ tworld = <<>> /\ tpc = "idle" /\ tflite_file = "none"
    /\ pip_installed = {} /\ treturned = "none" /\ texit_code = -1
    /\ samples = <<>>
    /\ bpc = "idle" /\ remaining = <<>> /\ tried = <<>>
    /\ downloaded_models = <<>> /\ decoder = "none" /\ temp_download = "none"
    /\ optimize_returned = "not_called"
    /\ trace = <<>> /\ names = <<>> /\ ort_dir = {} /\ ort_returned = "none"
    /\ raised = "none"

CNext ==
    \E p \in Callers :
       \/ CExists(p)
       \/ CYolo(p)
       \/ CDefaultExists(p)
       \/ CMove(p)
       \/ CReturn(p)

SpecConcurrent == InitConcurrent /\ [][CNext]_vars

\* download_real_ppe_models.py: main starts with some of the required
\* packages installed and with what earlier runs left: the directories, a
\* model_config.json, model files, and files in a temp_dir that was not
\* removed.
InitPPE ==
    /\ installed \in SUBSET required_packages
    /\ ppc = "start"
    /\ \E ds \in SUBSET {"models_dir", "temp_dir"}, stale \in BOOLEAN,
          old \in BOOLEAN, kind \in ConfigKinds, st_size \in StatSizes :
          LET temp == [v \in Variants |-> IF stale THEN "stale" ELSE "absent"]
              final == [v \in Variants |-> IF old THEN "old" ELSE "absent"]
              config == [kind |-> kind,
                         models |->
                            IF kind = "json"
                            THEN UpdatedModels(NoModels,
                                    <<ConvertedModel(1, st_size)>>)
                            ELSE NoModels]
          IN  /\ stale => "temp_dir" \in ds
              /\ (old \/ kind # "absent") => "models_dir" \in ds
              /\ pdirs = ds
              /\ temp_files = temp
              /\ final_files = final
              /\ model_config = config
              /\ pstart = [pdirs |-> ds, temp_files |-> temp,
                           final_files |-> final, model_config |-> config]
    /\ variant = 0
    /\ variant_log = [v \in Variants |-> "not_reached"]
    /\ converted_models = <<>>
    /\ plog = [reported |-> {}, invoked |-> FALSE, returned |-> "none"]
    /\ pexit_code = -1
    /\ args = <<>> /\ gpc = "idle" /\ converter = <<>> /\ fs = <<>>
    /\ dirs = {} /\ stage = <<>> /\ exit_code = -1 /\ env = <<>>
    /\ models_dir = <<>> /\ default_cache = <<>> /\ download_calls = <<>>
    /\ returned = <<>> /\ last_call = <<>> /\ calls = 0
    /\ yargs = <<>> /\ ypc = "idle" /\ exported = <<>> /\ validated = <<>>
    /\ deploy = <<>> /\ deploy_start = <<>> /\ deploy_queue = <<>>
    /\ writing = FALSE /\ ystage = <<>> /\ yexit_code = -1
    /\ documents = <<>>
    /\ csize = "none" /\ cpc = <<>> /\ cresult = <<>>
    /\ assets = <<>> /\ tworld = <<>> /\ tpc = "idle" /\ tflite_file = "none"
    /\ pip_installed = {} /\ treturned = "none" /\ texit_code = -1
    /\ samples = <<>>
    /\ bpc = "idle" /\ remaining = <<>> /\ tried = <<>>
    /\ downloaded_models = <<>> /\ decoder = "none" /\ temp_download = "none"
    /\ optimize_returned = "not_called"
    /\ trace = <<>> /\ names = <<>> /\ ort_dir = {} /\ ort_returned = "none"
    /\ raised = "none"

PNext ==
    \/ PMain
    \/ PDownloadBegin
    \/ PVariant
    \/ PUpdateConfig
    \/ PCleanup

SpecPPE == InitPPE /\ [][PNext]_vars

\* The metadata writers, from any model_config.json an earlier run left.
InitMetadata ==
    /\ documents = [dataset_config |-> NoDocument, hazard_classes |-> NoDocument,
                    model_info |-> NoDocument]
    /\ assets = [hazard_classes |-> NoDocument, model_info |-> NoDocument]
    /\ \E kind \in ConfigKinds, st_size \in StatSizes :
          model_config = [kind |-> kind,
                          models |->
                             IF kind = "json"
                             THEN UpdatedModels(NoModels,
                                     <<ConvertedModel(1, st_size)>>)
                             ELSE NoModels]
    /\ args = <<>> /\ gpc = "idle" /\ converter = <<>> /\ fs = <<>>
    /\ dirs = {} /\ stage = <<>> /\ exit_code = -1 /\ env = <<>>
    /\ models_dir = <<>> /\ default_cache = <<>> /\ download_calls = <<>>
    /\ returned = <<>> /\ last_call = <<>> /\ calls = 0
    /\ yargs = <<>> /\ ypc = "idle" /\ exported = <<>> /\ validated = <<>>
    /\ deploy = <<>> /\ deploy_start = <<>> /\ deploy_queue = <<>>
    /\ writing = FALSE /\ ystage = <<>> /\ yexit_code = -1
    /\ csize = "none" /\ cpc = <<>> /\ cresult = <<>>
    /\ installed = {} /\ ppc = "idle" /\ pdirs = {} /\ temp_files = <<>>
    /\ final_files = <<>> /\ variant = 0 /\ variant_log = <<>>
    /\ converted_models = <<>> /\ pstart = <<>>
    /\ plog = <<>> /\ pexit_code = -1
    /\ tworld = <<>> /\ tpc = "idle" /\ tflite_file = "none"
    /\ pip_installed = {} /\ treturned = "none" /\ texit_code = -1
    /\ samples = <<>>
    /\ bpc = "idle" /\ remaining = <<>> /\ tried = <<>>
    /\ downloaded_models = <<>> /\ decoder = "none" /\ temp_download = "none"
    /\ optimize_returned = "not_called"
    /\ trace = <<>> /\ names = <<>> /\ ort_dir = {} /\ ort_returned = "none"
    /\ raised = "none"

MNext ==
    \/ CreateConstructionDatasetConfig
    \/ UpdateModelConfig
    \/ UpdateModelMetadata

SpecMetadata == InitMetadata /\ [][MNext]_vars

\* convert_onnx_to_tflite.py: the script starts with some of its modules
\* importable, with or without the ONNX model, and with or without a
\* TFLite file of an earlier run.
InitOnnxToTflite ==
    /\ tworld \in [importable : SUBSET Imports, onnx_model : BOOLEAN]
    /\ tpc = "start"
    /\ tflite_file \in {"absent", "old"}
    /\ pip_installed = {}
    /\ treturned = "none"
    /\ texit_code = -1
    /\ assets = <<>>
    /\ args = <<>> /\ gpc = "idle" /\ converter = <<>> /\ fs = <<>>
    /\ dirs = {} /\ stage = <<>> /\ exit_code = -1 /\ env = <<>>
    /\ models_dir = <<>> /\ default_cache = <<>> /\ download_calls = <<>>
    /\ returned = <<>> /\ last_call = <<>> /\ calls = 0
    /\ yargs = <<>> /\ ypc = "idle" /\ exported = <<>> /\ validated = <<>>
    /\ deploy = <<>> /\ deploy_start = <<>> /\ deploy_queue = <<>>
    /\ writing = FALSE /\ ystage = <<>> /\ yexit_code = -1
    /\ documents = <<>>
    /\ csize = "none" /\ cpc = <<>> /\ cresult = <<>>
    /\ installed = {} /\ ppc = "idle" /\ pdirs = {} /\ temp_files = <<>>
    /\ final_files = <<>> /\ variant = 0 /\ variant_log = <<>>
    /\ converted_models = <<>> /\ model_config = <<>> /\ pstart = <<>>
    /\ plog = <<>> /\ pexit_code = -1
    /\ optimize_returned = "not_called"
    /\ trace = <<>> /\ names = <<>> /\ ort_dir = {} /\ ort_returned = "none"
    /\ raised = "none"
    /\ samples = <<>>
    /\ bpc = "idle" /\ remaining = <<>> /\ tried = <<>>
    /\ downloaded_models = <<>> /\ decoder = "none" /\ temp_download = "none"

TNext ==
    \/ TImport
    \/ TInstall
    \/ TConvert
    \/ TWriteBegin
    \/ TWriteEnd
    \/ TMainEnd

SpecOnnxToTflite == InitOnnxToTflite /\ [][TNext]_vars

(***************************************************************************)
(* The converter after GemmaToONNXConverter() (40-54), in the hands of a   *)
(* caller: tokenizer and model are None, the output path may hold a file   *)
(* of an earlier run.                                                      *)
(***************************************************************************)
InitConverterApi ==
    /\ \E out \in OutputPaths, skip \in BOOLEAN :
          args = [output |-> out, skip_optimization |-> skip,
                  create_ort |-> FALSE, validate_only |-> NoPath]
    /\ gpc = "api"
    /\ converter = [constructed |-> TRUE, tokenizer |-> "None", model |-> "None"]
    /\ \E ds \in SUBSET AllDirs, pre \in {"absent", "stale"} :
          /\ <<>> \in ds
          /\ pre = "stale" => ParentDir(args.output) \in ds
          /\ dirs = ds
          /\ fs = [p \in AllPaths |-> IF p = args.output THEN pre ELSE "absent"]
    /\ stage = NotRun
    /\ exit_code = -1
    /\ optimize_returned = "not_called"
    /\ trace = <<>>
    /\ names = [declared |-> NoNames, bound |-> {}]
    /\ ort_dir = {}
    /\ ort_returned = "none"
    /\ raised = "none"
    /\ env = [cache_dir_ok |-> TRUE, engine_runs |-> TRUE,
              outputs_match |-> TRUE, stale_well_formed |-> TRUE]
    /\ models_dir = <<>> /\ default_cache = <<>> /\ download_calls = <<>>
    /\ returned = <<>> /\ last_call = <<>> /\ calls = 0
    /\ yargs = <<>> /\ ypc = "idle" /\ exported = <<>> /\ validated = <<>>
    /\ deploy = <<>> /\ deploy_start = <<>> /\ deploy_queue = <<>>
    /\ writing = FALSE /\ ystage = <<>> /\ yexit_code = -1
    /\ documents = <<>>
    /\ csize = "none" /\ cpc = <<>> /\ cresult = <<>>
    /\ installed = {} /\ ppc = "idle" /\ pdirs = {} /\ temp_files = <<>>
    /\ final_files = <<>> /\ variant = 0 /\ variant_log = <<>>
    /\ converted_models = <<>> /\ model_config = <<>> /\ pstart = <<>>
    /\ plog = <<>> /\ pexit_code = -1
    /\ assets = <<>> /\ tworld = <<>> /\ tpc = "idle" /\ tflite_file = "none"
    /\ pip_installed = {} /\ treturned = "none" /\ texit_code = -1
    /\ samples = <<>>
    /\ bpc = "idle" /\ remaining = <<>> /\ tried = <<>>
    /\ downloaded_models = <<>> /\ decoder = "none" /\ temp_download = "none"

ANext ==
    \/ ApiLoadModel
    \/ ApiConvertToOnnx

SpecConverterApi == InitConverterApi /\ [][ANext]_vars

(***************************************************************************)
(* The sample inputs the tools build, in two runs with the same            *)
(* configuration.  prepare_sample_inputs (convert_gemma_to_onnx.py,        *)
(* 109-130) tokenizes a fixed prompt; validate_model                       *)
(* (setup_yolo_hazard_detection.py, 328) and representative_dataset_gen    *)
(* (convert_to_tflite.py, 55-59) draw from numpy's global generator, which *)
(* nothing seeds: a draw is any value of the range.                        *)
(***************************************************************************)
Runs == {"first", "second"}
NotBuilt == <<>>

\* create_construction_safety_prompt, 96-107: a fixed text (its first words).
prompt ==
    <<"You", "are", "an", "OSHA-certified", "construction", "safety",
      "expert">>

\* The vocabulary of the tokenizer load_model loaded: fixed by the model.
Vocabulary ==
    <<"an", "are", "construction", "expert", "OSHA-certified", "safety",
      "You">>
TokenId(word) == CHOOSE i \in DOMAIN Vocabulary : Vocabulary[i] = word

max_length == 512

\* Lines 122-128: self.tokenizer(prompt, padding=True, truncation=True,
\* max_length=512): the ids of the words, cut at max_length; a single text
\* needs no padding, so the mask is all ones.
Tokenizer(text, max_len) ==
    LET ids == [i \in 1..Len(text) |-> TokenId(text[i])]
        kept == SubSeq(ids, 1, IF Len(ids) < max_len THEN Len(ids) ELSE max_len)
    IN  [input_ids |-> kept, attention_mask |-> [i \in 1..Len(kept) |-> 1]]

\* Lines 119-130
PrepareSampleInputs ==
    LET inputs == Tokenizer(prompt, max_length)
    IN  <<inputs.input_ids, inputs.attention_mask>>

\* np.random.randint(0, 255, (640, 640, 3)): each value is one of 0..254;
\* the image is cut down to ImagePixels values, each the least or the
\* greatest of the range.
ImagePixels == 2
RandintValues == {0, 254}

\* np.random.rand(1, 640, 640, 3) in each of the 100 rounds: a value is in
\* [0, 1), here in hundredths; the data set is cut down to
\* CalibrationSamples values.
CalibrationSamples == 2
RandValues == {0, 50}

\* convert_to_onnx, line 153
SConvertToOnnx(r) ==
    /\ samples[r].traced = NotBuilt
    /\ samples' = [samples EXCEPT ![r].traced = PrepareSampleInputs]
    /\ UNCHANGED notS

\* validate_onnx_model, line 240
SValidateOnnxModel(r) ==
    /\ samples[r].traced # NotBuilt
    /\ samples[r].validated = NotBuilt
    /\ samples' = [samples EXCEPT ![r].validated = PrepareSampleInputs]
    /\ UNCHANGED notS

\* validate_model without a test image, line 328
SValidateModel(r) ==
    /\ samples[r].dummy_image = NotBuilt
    /\ \E image \in [1..ImagePixels -> RandintValues] :
          samples' = [samples EXCEPT ![r].dummy_image = image]
    /\ UNCHANGED notS

\* representative_dataset_gen, lines 55-59
SRepresentativeDatasetGen(r) ==
    /\ samples[r].calibration = NotBuilt
    /\ \E dataset \in [1..CalibrationSamples -> RandValues] :
          samples' = [samples EXCEPT ![r].calibration = dataset]
    /\ UNCHANGED notS

InitSamples ==
    /\ samples = [r \in Runs |-> [traced |-> NotBuilt, validated |-> NotBuilt,
                                  dummy_image |-> NotBuilt,
                                  calibration |-> NotBuilt]]
    /\ args = <<>> /\ gpc = "idle" /\ converter = <<>> /\ fs = <<>>
    /\ dirs = {} /\ stage = <<>> /\ exit_code = -1 /\ env = <<>>
    /\ optimize_returned = "not_called"
    /\ trace = <<>> /\ names = <<>> /\ ort_dir = {} /\ ort_returned = "none"
    /\ raised = "none"
    /\ models_dir = <<>> /\ default_cache = <<>> /\ download_calls = <<>>
    /\ returned = <<>> /\ last_call = <<>> /\ calls = 0
    /\ yargs = <<>> /\ ypc = "idle" /\ exported = <<>> /\ validated = <<>>
    /\ deploy = <<>> /\ deploy_start = <<>> /\ deploy_queue = <<>>
    /\ writing = FALSE /\ ystage = <<>> /\ yexit_code = -1
    /\ documents = <<>>
    /\ csize = "none" /\ cpc = <<>> /\ cresult = <<>>
    /\ installed = {} /\ ppc = "idle" /\ pdirs = {} /\ temp_files = <<>>
    /\ final_files = <<>> /\ variant = 0 /\ variant_log = <<>>
    /\ converted_models = <<>> /\ model_config = <<>> /\ pstart = <<>>
    /\ plog = <<>> /\ pexit_code = -1
    /\ assets = <<>> /\ tworld = <<>> /\ tpc = "idle" /\ tflite_file = "none"
    /\ pip_installed = {} /\ treturned = "none" /\ texit_code = -1
    /\ bpc = "idle" /\ remaining = <<>> /\ tried = <<>>
    /\ downloaded_models = <<>> /\ decoder = "none" /\ temp_download = "none"

SNext ==
    \E r \in Runs :
        \/ SConvertToOnnx(r)
        \/ SValidateOnnxModel(r)
        \/ SValidateModel(r)
        \/ SRepresentativeDatasetGen(r)

SpecSamples == InitSamples /\ [][SNext]_vars

(***************************************************************************)
(* download_best_gemma_onnx.py: download_best_gemma_onnx, lines 11-101.    *)
(***************************************************************************)
\* Lines 22-43
candidates ==
    <<[repo |-> "aless2212/gemma-2b-it-fp16-onnx", priority |-> 1],
      [repo |-> "EmbeddedLLM/gemma-2b-it-int4-onnx-directml", priority |-> 2],
      [repo |-> "nvidia/Gemma-2b-it-ONNX-INT4", priority |-> 3],
      [repo |-> "llmware/gemma-2b-it-onnx", priority |-> 4]>>

\* A sequence without its i-th element.
Without(items, i) ==
    SubSeq(items, 1, i - 1) \o SubSeq(items, i + 1, Len(items))

\* Line 47: sorted(candidates, key=lambda x: x["priority"]), a stable sort.
RECURSIVE SortedByPriority(_)
SortedByPriority(items) ==
    IF items = <<>> THEN <<>>
    ELSE LET first == CHOOSE i \in DOMAIN items :
                         \A j \in DOMAIN items :
                            \/ items[i].priority < items[j].priority
                            \/ (items[i].priority = items[j].priority /\ i <= j)
         IN  <<items[first]>> \o SortedByPriority(Without(items, first))

\* Line 74: file_size = os.path.getsize(downloaded_path) / (1024 * 1024),
\* kept as the fraction <<bytes, bytes in a MB>>.
MiB == 1024 * 1024
FileSizeMb(st_size) == <<st_size, MiB>>

\* Line 78: if file_size < 500
MobileLimitMb == 500
SuitableMutant(file_size) == TRUE
Suitable(file_size) == file_size[1] < MobileLimitMb * file_size[2]

\* The sizes a downloaded file has here: one byte under 500 MB, and 500 MB.
StatSizesGemma == {MobileLimitMb * MiB - 1, MobileLimitMb * MiB}

\* Lines 48-98, one round of the loop: list_repo_files, hf_hub_download or
\* shutil.copy2 raises ("list", "download", "copy"), or nothing does.
IterationOutcome(fail, has_onnx, st_size) ==
    IF fail = "list" THEN "list_raised"
    ELSE IF ~has_onnx THEN "no_onnx"
    ELSE IF fail = "download" THEN "download_raised"
    ELSE IF ~Suitable(FileSizeMb(st_size)) THEN "too_large"
    ELSE IF fail = "copy" THEN "copy_raised"
    ELSE "copied"

\* Lines 15-16: temp_dir.mkdir(parents=True, exist_ok=True), outside any
\* try; line 47: the loop starts over the sorted candidates.
BStart ==
    /\ bpc = "start"
    /\ \E mkdir_ok \in BOOLEAN :
          IF mkdir_ok
          THEN /\ temp_download' = [temp_download EXCEPT !.exists = TRUE]
               /\ remaining' = SortedByPriority(candidates)
               /\ bpc' = "loop"
          ELSE /\ bpc' = "raised"
               /\ UNCHANGED <<temp_download, remaining>>
    /\ UNCHANGED <<tried, downloaded_models, decoder, notB>>

\* Lines 47-101: one round of the loop, with the break (93) or the end of
\* the loop and the return (101) that follow it.
BTry ==
    /\ bpc = "loop"
    /\ remaining # <<>>
    /\ \E fail \in {"none", "list", "download", "copy"}, has_onnx \in BOOLEAN,
          st_size \in StatSizesGemma, written \in BOOLEAN :
          LET candidate == Head(remaining)
              outcome == IterationOutcome(fail, has_onnx, st_size)
              downloaded == outcome \in {"too_large", "copy_raised", "copied"}
          IN  /\ tried' = Append(tried, [candidate |-> candidate,
                                         outcome |-> outcome])
              /\ temp_download' =
                    IF downloaded
                    THEN [temp_download EXCEPT !.dirs = @ \cup {candidate.repo}]
                    ELSE temp_download
              /\ decoder' =
                    CASE outcome = "copied" -> candidate.repo
                      [] outcome = "copy_raised" /\ written -> "partial"
                      [] OTHER -> decoder
              /\ downloaded_models' =
                    IF outcome = "copied"
                    THEN Append(downloaded_models,
                                [repo |-> candidate.repo,
                                 file |-> "onnx_files[0]",
                                 size_mb |-> FileSizeMb(st_size),
                                 path |-> "decoder_model_merged_q4.onnx"])
                    ELSE downloaded_models
              /\ remaining' = Tail(remaining)
              /\ bpc' = IF outcome = "copied" \/ Tail(remaining) = <<>>
                        THEN "returned" ELSE "loop"
    /\ UNCHANGED notB

InitBestGemma ==
    /\ bpc = "start"
    /\ remaining = <<>>
    /\ tried = <<>>
    /\ downloaded_models = <<>>
    /\ decoder \in {"absent", "old"}
    /\ \E there \in BOOLEAN : temp_download = [exists |-> there, dirs |-> {}]
    /\ args = <<>> /\ gpc = "idle" /\ converter = <<>> /\ fs = <<>>
    /\ dirs = {} /\ stage = <<>> /\ exit_code = -1 /\ env = <<>>
    /\ optimize_returned = "not_called"
    /\ trace = <<>> /\ names = <<>> /\ ort_dir = {} /\ ort_returned = "none"
    /\ raised = "none"
    /\ models_dir = <<>> /\ default_cache = <<>> /\ download_calls = <<>>
    /\ returned = <<>> /\ last_call = <<>> /\ calls = 0
    /\ yargs = <<>> /\ ypc = "idle" /\ exported = <<>> /\ validated = <<>>
    /\ deploy = <<>> /\ deploy_start = <<>> /\ deploy_queue = <<>>
    /\ writing = FALSE /\ ystage = <<>> /\ yexit_code = -1
    /\ documents = <<>>
    /\ csize = "none" /\ cpc = <<>> /\ cresult = <<>>
    /\ installed = {} /\ ppc = "idle" /\ pdirs = {} /\ temp_files = <<>>
    /\ final_files = <<>> /\ variant = 0 /\ variant_log = <<>>
    /\ converted_models = <<>> /\ model_config = <<>> /\ pstart = <<>>
    /\ plog = <<>> /\ pexit_code = -1
    /\ assets = <<>> /\ tworld = <<>> /\ tpc = "idle" /\ tflite_file = "none"
    /\ pip_installed = {} /\ treturned = "none" /\ texit_code = -1
    /\ samples = <<>>

BNext ==
    \/ BStart
    \/ BTry

SpecBestGemma == InitBestGemma /\ [][BNext]_vars

(***************************************************************************)
(* Properties of convert_gemma_to_onnx.py, checked under SpecGemma.        *)
(***************************************************************************)

\* The stages whose failure main answers with exit code 1.
FatalStages == {"load", "export", "validate", "ort"}
NoFatalStageFailed == \A s \in FatalStages : stage[s] # "failed"

\* C1: a failure of the optimizer never fails the pipeline.  Whenever
\* _optimize_onnx_model failed (at load, shape inference, save or replace),
\* the export before it had succeeded, main went on to validate_onnx_model,
\* and the exit code is 0 exactly when validation passed and the ORT
\* conversion, if run, did not fail.
C1_OptimizerFailureNotFatal ==
    stage.optimize = "failed" =>
        /\ stage.export = "ok"
        /\ gpc = "validate" \/ stage.validate # "not_run"
        /\ gpc = "exit" =>
              (exit_code = 0 <=> (stage.validate = "ok" /\ stage.ort # "failed"))

\* C1 witness: a run whose optimizer failed and that ended with exit code 0.
C1_Witness ==
    stage.optimize = "failed" /\ gpc = "exit" /\ exit_code = 0

\* C2 (as claimed): fallback safety.  Whenever _optimize_onnx_model has
\* failed, the file at the output path is the unoptimized export the
\* exporter wrote, for every output path.
C2_FallbackLeavesExport ==
    stage.optimize = "failed" => fs[args.output] = "export"

\* C4 (as claimed): in full conversion mode the exit code is non-zero
\* whenever load_model, convert_to_onnx, validate_onnx_model or
\* convert_to_ort_format failed, and 0 exactly when every stage that was
\* run succeeded.
C4_ExitCodeByStagesAlone ==
    (FullMode /\ gpc = "exit") => (exit_code = 0 <=> NoFatalStageFailed)

\* C4 (amended): in full conversion mode the exit code is non-zero whenever
\* the construction of the converter, load_model, convert_to_onnx,
\* validate_onnx_model or convert_to_ort_format failed, and 0 exactly when
\* the converter was constructed and every stage that was run succeeded.
C4_ExitCodeByConstructionAndStages ==
    (FullMode /\ gpc = "exit") =>
        /\ exit_code \in {0, 1}
        /\ exit_code = 0 <=> (converter.constructed /\ NoFatalStageFailed)

\* C4 witness: a full run with --create-ort that ended with exit code 0.
C4_Witness ==
    FullMode /\ gpc = "exit" /\ exit_code = 0 /\ stage.ort = "ok"

\* C5 (as claimed): with --validate-only the process exits 0 when the
\* artifact is a well-formed ONNX model that the engine can run on the
\* sample input, and 1 otherwise.
C5_ValidateOnlyVerdict ==
    (~FullMode /\ gpc = "exit" /\ converter.constructed) =>
        (exit_code = 0 <=>
            (WellFormed(fs[args.validate_only]) /\ env.engine_runs))

\* C7 (as claimed): the validator returns True only when every output of
\* the exported graph matches the reference output of the in-memory model.
C7_VerdictComparesWithReference ==
    stage.validate = "ok" => env.outputs_match

(***************************************************************************)
(* Properties of setup_yolo_hazard_detection.py main, checked under        *)
(* SpecYolo.                                                               *)
(***************************************************************************)

\* C3 (as claimed): validation gates packaging.  A model file is copied
\* into the deployment directory only if validate_model was run on that
\* model and returned True.
C3_ValidationGatesPackaging ==
    \A f \in Formats :
        (ypc # "idle" /\ deploy[DestName(f)] \in {"partial", "new"})
            => validated[f] = "pass"

\* C6: when the ONNX export raises, the process exits with code 1,
\* create_deployment_assets is never invoked and no file of the deployment
\* directory is written.
C6_ExportFailureWritesNothing ==
    (ypc # "idle" /\ ystage.export = "raised") =>
        /\ ypc = "exit"
        /\ yexit_code = 1
        /\ ystage.deploy = "not_run"
        /\ deploy = deploy_start

\* C6 witness: the export raised in a run that was to deploy.
C6_Witness ==
    /\ ypc = "exit"
    /\ ystage.export = "raised"
    /\ yargs.deploy_to
    /\ yexit_code = 1

\* C8 (as claimed): the packager never overwrites.  A file that was in the
\* deployment directory before the run keeps its content.
C8_ExistingArtifactUnchanged ==
    ypc # "idle" =>
        \A f \in DeployFiles : deploy_start[f] = "old" => deploy[f] = "old"

\* C9 (as claimed): atomic packaging.  When the process is killed, every
\* file of the deployment directory is absent, the complete previous
\* version or the complete new version.
C9_KilledLeavesNoPartialFile ==
    ypc = "killed" =>
        \A f \in DeployFiles : deploy[f] \in {"absent", "old", "new"}

(***************************************************************************)
(* Properties of download_pretrained_model, checked under SpecLoader.      *)
(***************************************************************************)

\* C10 (as claimed): loader idempotence.  Once a call for a size has
\* returned successfully, every later call for that size returns the same
\* path, does not reach the download again and leaves the file in
\* models_dir as it is.
C10_LoaderIdempotent ==
    [][\A s \in Sizes :
          (returned[s] # NoPath /\ calls' = calls + 1 /\ last_call'.size = s)
              => /\ last_call'.result = "cached"
                 /\ returned'[s] = returned[s]
                 /\ download_calls'[s] = download_calls[s]
                 /\ models_dir'[s] = models_dir[s]]_vars

(***************************************************************************)
(* Properties of two concurrent calls of download_pretrained_model,        *)
(* checked under SpecConcurrent.                                           *)
(***************************************************************************)

\* The caller passed line 76: its YOLO(model_name) fetched or found weights.
Downloaded(p) ==
    \/ cpc[p] \in {"default_exists", "move", "return"}
    \/ cresult[p] \in {"downloaded", "source_gone", "move_raised"}

\* C11: two concurrent calls of download_pretrained_model for the same size
\* are serialized.  In no interleaving do both callers download, does a
\* caller fail because the other took the file it was about to move, or
\* does a caller return a path at which there is no model file.
C11_ConcurrentLoadsSerialized ==
    /\ ~(\A p \in Callers : Downloaded(p))
    /\ \A p \in Callers : cresult[p] # "source_gone"
    /\ \A p \in Callers :
          cresult[p] \in {"cached", "downloaded"} => models_dir[csize] # NoFile

(***************************************************************************)
(* Properties of the metadata setup_yolo_hazard_detection.py writes,       *)
(* checked under SpecYolo.                                                 *)
(***************************************************************************)

\* items is a mapping as the sequence of its <<name, index>> pairs: no name
\* and no index occurs twice, the indices are the naturals 0..N-1, and the
\* pair at position i has index i-1.
NumbersItsNames(items) ==
    /\ \A i, j \in DOMAIN items : items[i][1] = items[j][1] => i = j
    /\ \A i, j \in DOMAIN items : items[i][2] = items[j][2] => i = j
    /\ \A i \in DOMAIN items : items[i][2] \in Nat
    /\ {items[i][2] : i \in DOMAIN items} = 0..(Len(items) - 1)
    /\ \A i \in DOMAIN items : items[i][2] = i - 1

\* C12: the class mapping written to hazard_classes.json, to model_info.json
\* and to the names of the dataset config gives every class name one index, the
\* indices are exactly 0..N-1 without a gap, and the entries are written in
\* the order of their indices.
C12_ClassIndicesContiguous ==
    /\ documents.hazard_classes # NoDocument
          => NumbersItsNames(documents.hazard_classes)
    /\ documents.model_info # NoDocument
          => NumbersItsNames(documents.model_info.classes)
    /\ documents.dataset_config # NoDocument
          => NumbersItsNames([i \in DOMAIN documents.dataset_config.names |->
                                <<documents.dataset_config.names[i][2],
                                  documents.dataset_config.names[i][1]>>])

C12_Witness ==
    /\ documents.hazard_classes # NoDocument
    /\ documents.model_info # NoDocument
    /\ documents.dataset_config # NoDocument
    /\ Len(documents.hazard_classes) > 1

\* The formats create_deployment_assets had a source file for.
Deployable == {f \in DOMAIN exported : exported[f] = "exists"}

\* C14 as stated: once create_deployment_assets has returned, every exported
\* format whose file exists is deployed as hazard_detection_model.<format>,
\* <format> being its key in exported_models, and model_info.json gives
\* the image size of the export, [640, 640], as input_size.
C14_DeployedUnderFormatKey ==
    ystage.deploy = "returned" =>
       /\ \A f \in Deployable :
             LET name == <<"hazard_detection_model", ".", f>>
             IN  name \in DOMAIN deploy /\ deploy[name] = "new"
       /\ documents.model_info.input_size = <<imgsz, imgsz>>

\* C14, amended: the deployed name is hazard_detection_model.<format> for
\* the keys onnx and tflite and hazard_detection_model.mlmodel for the key
\* coreml; input_size is the image size of the export.
C14_DeployedUnderFormatName ==
    ystage.deploy = "returned" =>
       /\ \A f \in Deployable :
             LET name == <<"hazard_detection_model", ".",
                           IF f = "coreml" THEN "mlmodel" ELSE f>>
             IN  name \in DOMAIN deploy /\ deploy[name] = "new"
       /\ documents.model_info.input_size = <<imgsz, imgsz>>

C14_Witness ==
    /\ ystage.deploy = "returned"
    /\ Deployable = Formats

(***************************************************************************)
(* Properties of download_real_ppe_models.py, checked under SpecPPE.       *)
(***************************************************************************)

\* The loop body ran for the variant, to its end or to an exception.
Processed(v) == variant_log[v] # "not_reached"

\* Processing the variant failed: at YOLO(...), in the export, or because
\* no exported file was found.
FailedVariant(v) ==
    variant_log[v] \in {"load_raised", "export_raised", "not_found"}

\* The loop over models_config is over, or was left.
LoopOver == ppc \in {"cleanup", "exit"} \/ variant = Len(models_config) + 1

\* The names of the models in converted_models.
ConvertedNames == {converted_models[i].name : i \in DOMAIN converted_models}

\* C15: every record update_model_config has written for a model of this
\* run has the fields filename, version, size_mb, input_size, num_classes
\* or classes, quantization, supported_backends and inference_time_ms, and
\* inference_time_ms has exactly one entry for each tag of supported_backends.
C15_RecordHasEveryField ==
    (ppc \in {"cleanup", "exit"} /\ plog.returned # "False"
     /\ model_config.kind = "json") =>
       \A n \in ConvertedNames :
          LET record == model_config.models[n]
              backends == {record.supported_backends[i] :
                             i \in DOMAIN record.supported_backends}
          IN  /\ {"filename", "version", "size_mb", "input_size",
                  "quantization", "supported_backends",
                  "inference_time_ms"} \subseteq DOMAIN record
              /\ {"num_classes", "classes"} \cap DOMAIN record # {}
              /\ DOMAIN record.inference_time_ms = backends

\* C16: the variants are processed independently.  When the loop is over,
\* a variant whose processing failed has not kept a later variant from
\* being processed, and when main has ended the variants recorded in
\* converted_models are the ones whose own export put the file in place,
\* and model_config.json has a record for each of them.
C16_VariantsIndependent ==
    /\ LoopOver =>
          \A v \in Variants : FailedVariant(v) =>
             \A w \in Variants : w > v => Processed(w)
    /\ ppc = "exit" =>
          /\ ConvertedNames =
                {models_config[v].name : v \in {w \in Variants :
                                                  variant_log[w] = "converted"}}
          /\ \A v \in Variants :
                variant_log[v] = "converted" =>
                   /\ final_files[v] = "fresh"
                   /\ model_config.kind = "json"
                   /\ models_config[v].name \in DOMAIN model_config.models

\* C17: when a required package is missing, main reports the missing
\* packages and exits with a code other than 0 before anything else runs:
\* download_yolov8_models is never invoked, and the directories and files
\* stay as the run found them.
C17_MissingPackageStopsFirst ==
    missing # {} =>
       /\ ~plog.invoked
       /\ pdirs = pstart.pdirs
       /\ temp_files = pstart.temp_files
       /\ final_files = pstart.final_files
       /\ model_config = pstart.model_config
       /\ ppc \in {"start", "exit"}
       /\ ppc = "exit" => (pexit_code # 0 /\ plog.reported = missing)

C17_Witness ==
    /\ "torchvision" \in missing
    /\ "ultralytics" \notin missing
    /\ ppc = "exit"

\* C18: when the TFLite export of a variant raised or its exported file
\* was not found, main does not end with exit code 0.
C18_ExportFailureExitsNonZero ==
    (ppc = "exit" /\ \E v \in Variants :
                        variant_log[v] \in {"export_raised", "not_found"})
       => pexit_code # 0

(***************************************************************************)
(* Properties of the metadata writers, checked under SpecMetadata.         *)
(***************************************************************************)

\* C13: in every metadata document the declared class count is the number
\* of entries of the class list written with it: num_classes of
\* model_info.json and the classes of hazard_classes.json when
\* update_model_metadata wrote both, num_classes and classes in every
\* model entry of model_config.json, nc and the names lines of the dataset
\* config.
C13_ClassCountMatchesList ==
    /\ (assets.model_info # NoDocument /\ assets.hazard_classes # NoDocument)
          => assets.model_info.num_classes = Len(assets.hazard_classes.classes)
    /\ model_config.kind = "json" =>
          \A n \in DOMAIN model_config.models :
             model_config.models[n].num_classes
                = Len(model_config.models[n].classes)
    /\ documents.dataset_config # NoDocument
          => documents.dataset_config.nc = Len(documents.dataset_config.names)

C13_Witness ==
    /\ assets.model_info # NoDocument
    /\ assets.hazard_classes # NoDocument
    /\ model_config.kind = "json"
    /\ Cardinality(DOMAIN model_config.models) = Len(models_config)
    /\ documents.dataset_config # NoDocument

(***************************************************************************)
(* Properties of convert_onnx_to_tflite.py, checked under                  *)
(* SpecOnnxToTflite.                                                       *)
(***************************************************************************)

\* C19: the script exits with a code other than 0 whenever
\* convert_onnx_to_tflite returned False, and with 0 only after the TFLite
\* file was written.
C19_FailedConversionExitsNonZero ==
    tpc = "exit" =>
       /\ treturned = "False" => texit_code # 0
       /\ texit_code = 0 => tflite_file = "new"

(***************************************************************************)
(* The result of the optimizer, checked under SpecGemma.                   *)
(***************************************************************************)

\* C20: the fallback of the optimizer can be observed in what it returns.
\* After _optimize_onnx_model failed, the value it returned to
\* convert_to_onnx is not the value a run that applied the optimization
\* returns.
C20_FallbackObservable ==
    stage.optimize = "failed" => optimize_returned # OptimizeReturns("none")

\* C21 (as claimed): sample inputs are deterministic.  In each run the
\* input validate_onnx_model feeds is the one convert_to_onnx traced with,
\* and two runs build the same sample inputs, the same dummy image and the
\* same calibration samples.
C21_SamplesDeterministic ==
    /\ \A r \in Runs :
          samples[r].validated # NotBuilt =>
             samples[r].validated = samples[r].traced
    /\ \A r1, r2 \in Runs :
          /\ (samples[r1].traced # NotBuilt /\ samples[r2].traced # NotBuilt)
                => samples[r1].traced = samples[r2].traced
          /\ (samples[r1].dummy_image # NotBuilt
                 /\ samples[r2].dummy_image # NotBuilt)
                => samples[r1].dummy_image = samples[r2].dummy_image
          /\ (samples[r1].calibration # NotBuilt
                 /\ samples[r2].calibration # NotBuilt)
                => samples[r1].calibration = samples[r2].calibration

(***************************************************************************)
(* The calls of a run, read from its trace.                                *)
(***************************************************************************)
Called(name) == \E i \in DOMAIN trace : trace[i] = name
Elements(seq) == {seq[i] : i \in DOMAIN seq}

\* main, lines 356-375: the methods of the converter in the order main
\* calls them (_optimize_onnx_model from inside convert_to_onnx, 183-184).
StageOrder ==
    <<"load_model", "convert_to_onnx", "_optimize_onnx_model",
      "validate_onnx_model", "convert_to_ort_format">>
StageCalls == SelectSeq(trace, LAMBDA name : name \in Elements(StageOrder))
Position(name) == CHOOSE i \in DOMAIN StageOrder : StageOrder[i] = name
InStageOrder ==
    \A i, j \in DOMAIN StageCalls :
        i < j => Position(StageCalls[i]) < Position(StageCalls[j])

\* C22: with --skip-optimization the optimizer is never invoked, on any
\* path: _optimize_onnx_model is not among the calls of the run, and from
\* the end of the export on (so at the start of validation too) the file at
\* the output path is the one the exporter wrote and no other path holds a
\* file.
C22_SkipNeverOptimizes ==
    (FullMode /\ args.skip_optimization) =>
        /\ ~Called("_optimize_onnx_model")
        /\ optimize_returned = "not_called"
        /\ stage.optimize = "not_run"
        /\ stage.export = "ok" =>
              \A p \in AllPaths :
                  fs[p] = IF p = args.output THEN "export" ELSE "absent"

\* C22 witness: a run with --skip-optimization at the start of validation,
\* its export done.
C22_Witness ==
    /\ FullMode /\ args.skip_optimization
    /\ stage.export = "ok" /\ gpc = "validate"

\* C23 (as claimed): in every run the stages are called in the order load,
\* export, optimize, validate, ORT conversion, each at most once; export is
\* called only after load succeeded, validation only after export returned,
\* ORT conversion only with --create-ort after validation returned True.
C23_StagesInOrder ==
    /\ InStageOrder
    /\ Called("convert_to_onnx") => stage.load = "ok"
    /\ Called("validate_onnx_model") => stage.export = "ok"
    /\ Called("convert_to_ort_format") =>
          (args.create_ort /\ stage.validate = "ok")

\* C23 (amended): the order and the gates hold in the runs of the full
\* conversion; a run with --validate-only calls validate_onnx_model alone,
\* once, with no load and no export before it.
C23_StagesInOrderByMode ==
    /\ InStageOrder
    /\ FullMode => C23_StagesInOrder
    /\ ~FullMode => Elements(StageCalls) \subseteq {"validate_onnx_model"}

\* C23 witness: a full run that called all five stages.
C23_Witness ==
    FullMode /\ Elements(StageCalls) = Elements(StageOrder)

\* C24: the names declared at the export are the ones used everywhere:
\* the keys of dynamic_axes are exactly the declared input and output
\* names, and the names validate_onnx_model binds are exactly the declared
\* input names.
C24_NamedInterface ==
    stage.export = "ok" =>
        LET declared == names.declared
            io == Elements(declared.input_names)
                      \cup Elements(declared.output_names)
        IN  /\ DOMAIN declared.dynamic_axes = io
            /\ names.bound # {} =>
                  names.bound = Elements(declared.input_names)

\* C24 witness: a run whose export declared the names and whose validation
\* bound its inputs.
C24_Witness ==
    stage.export = "ok" /\ names.bound # {}

\* C29 (as claimed): what convert_to_ort_format returns is the .ort file
\* this call produced, never one that was in the directory before, and the
\* call raises when this conversion produced no .ort file.
C29_ReturnsThisConversion ==
    ort_returned # "none" =>
        /\ ort_returned # "raised" => ort_returned = "fresh"
        /\ "fresh" \notin ort_dir => ort_returned = "raised"

\* A step in which convert_to_onnx is called.
ConvertCalled ==
    /\ Len(trace') > Len(trace)
    /\ trace'[Len(trace) + 1] = "convert_to_onnx"

\* C30: convert_to_onnx called on a converter whose model is None raises
\* ValueError before anything else: the call is all the trace gains (no
\* sample input, no exporter, no optimizer) and no path changes.
C30_UnloadedRaisesFirst ==
    [][(converter.model = "None" /\ ConvertCalled) =>
          /\ raised' = "ValueError"
          /\ trace' = Append(trace, "convert_to_onnx")
          /\ fs' = fs
          /\ optimize_returned' = optimize_returned]_vars

\* C30 witness: convert_to_onnx has raised ValueError on a converter whose
\* load_model had failed.
C30_Witness ==
    raised = "ValueError" /\ stage.load = "failed"

\* C25 (as claimed): temporary directories are released on every exit path.
\* Once download_yolov8_models has returned, with True or with False, the
\* temp_models directory does not exist.
C25_TempDirReleased ==
    plog.returned \in {"True", "False"} => "temp_dir" \notin pdirs

\* The place of a candidate in the ascending order of the priorities.
Rank(candidate) ==
    Cardinality({i \in DOMAIN candidates :
                    candidates[i].priority <= candidate.priority})

\* C26: download_best_gemma_onnx visits the candidates in ascending
\* priority and stops at the first suitable one.  The i-th candidate tried
\* is the one of the i-th priority; a round that copied nothing (listing,
\* download or copy raised, no .onnx file, file of 500 MB or more) is
\* followed by the next candidate, so the function returns only after a
\* copy or after the last candidate; nothing is tried after a copy; the
\* returned list has at most one entry, the copied one, below 500 MB.
C26_FirstSuitableCandidate ==
    /\ \A i \in DOMAIN tried : Rank(tried[i].candidate) = i
    /\ \A i \in DOMAIN tried :
          tried[i].outcome = "copied" => (i = Len(tried) /\ bpc = "returned")
    /\ bpc = "returned" =>
          \/ Len(tried) = Len(candidates)
          \/ tried[Len(tried)].outcome = "copied"
    /\ Len(downloaded_models) <= 1
    /\ \A k \in DOMAIN downloaded_models :
          /\ downloaded_models[k].size_mb[1]
                < 500 * downloaded_models[k].size_mb[2]
          /\ tried[Len(tried)].outcome = "copied"
          /\ downloaded_models[k].repo = tried[Len(tried)].candidate.repo
    /\ (\E i \in DOMAIN tried : tried[i].outcome = "copied")
          => Len(downloaded_models) = 1

\* C26 witness: the function returned after skipping a candidate whose file
\* had 500 MB, one whose download raised, and copying the third.
C26_Witness ==
    /\ bpc = "returned"
    /\ Len(tried) = 3
    /\ tried[1].outcome = "too_large"
    /\ tried[2].outcome = "download_raised"
    /\ tried[3].outcome = "copied"
    /\ Len(downloaded_models) = 1

\* C27 (as claimed): once create_deployment_assets has returned, every
\* format listed under formats in model_info.json is one whose exported
\* file existed and was copied: its artifact is in the deployment
\* directory, written by this run.
C27_ListedFormatsDeployed ==
    ystage.deploy = "returned" =>
        \A i \in DOMAIN documents.model_info.formats :
            LET f == documents.model_info.formats[i]
            IN  /\ f \in Deployable
                /\ DestName(f) \in DOMAIN deploy
                /\ deploy[DestName(f)] = "new"

\* C28 (as claimed): whenever download_pretrained_model returns without
\* raising, the path it returns names a file that models_dir holds.
C28_ReturnedPathExists ==
    (calls > 0 /\ last_call.result \in {"cached", "downloaded"}) =>
        /\ returned[last_call.size] = ModelPath(last_call.size)
        /\ models_dir[last_call.size] # NoFile

=============================================================================
